---- MODULE Spec2Model ----
(***************************************************************************)
(* Structural schema inference and fingerprint cache of Schema-Generator.  *)
(*                                                                         *)
(* Python strings are modelled as sequences of one-character strings, so   *)
(* that concatenation, the policy markers "0"/"1", membership tests on     *)
(* marked paths and the lexicographic order of sorted() are all computed   *)
(* the way the code computes them.                                         *)
(*                                                                         *)
(* A JSON value is a record [kind, val, kids]:                             *)
(*   kind \in {"str","bool","num","null","list","dict"}                    *)
(*   val  the scalar's text ("" for containers)                            *)
(*   kids a sequence of [key, node]; key is <<>> for the items of a list   *)
(*        and the (distinct) key for the entries of a dict, kept in the    *)
(*        insertion order of the Python dict.                              *)
(***************************************************************************)
EXTENDS Integers, Sequences, FiniteSets, TLC

(* ------------------------------ bounds --------------------------------- *)

\* largest number of nodes (scalars and containers) of a sample JSON document
MaxNodes == 4

\* largest number of paths in the optional set and in the nullable set
MaxPolicy == 2

(* ------------------------------ strings -------------------------------- *)

\* code point of the characters that occur in the model
Ord(c) ==
  CASE c = "\"" -> 34
    [] c = "," -> 44
    [] c = "." -> 46
    [] c = "0" -> 48
    [] c = "1" -> 49
    [] c = "@" -> 64
    [] c = "[" -> 91
    [] c = "]" -> 93
    [] c = "a" -> 97
    [] c = "b" -> 98
    [] c = "r" -> 114
    [] OTHER -> 120

\* s < t for Python str: lexicographic by code point, a proper prefix first
StrLt(s, t) ==
  \/ /\ Len(s) < Len(t)
     /\ \A i \in 1..Len(s) : s[i] = t[i]
  \/ \E i \in 1..Len(s) :
        /\ i <= Len(t)
        /\ \A j \in 1..(i - 1) : s[j] = t[j]
        /\ Ord(s[i]) < Ord(t[i])

RECURSIVE InsertSorted(_, _)
InsertSorted(x, s) ==
  IF s = <<>> THEN <<x>>
  ELSE IF StrLt(x, Head(s)) THEN <<x>> \o s
  ELSE <<Head(s)>> \o InsertSorted(x, Tail(s))

\* a sorted that leaves the list in the order it is given
sorted_unsorted(s) == s

\* sorted(list of str)
RECURSIVE sorted(_)
sorted(s) ==
  IF s = <<>> THEN <<>>
  ELSE InsertSorted(Head(s), sorted(Tail(s)))

\* f"{path}.{k}" if path else k
JoinPath(path, k) == IF path # <<>> THEN path \o <<".">> \o k ELSE k

RECURSIVE JoinQuoted(_)
JoinQuoted(l) ==
  IF l = <<>> THEN <<>>
  ELSE IF Len(l) = 1 THEN <<"\"">> \o l[1] \o <<"\"">>
  ELSE <<"\"">> \o l[1] \o <<"\"", ",">> \o JoinQuoted(Tail(l))

\* json.dumps(list of str, separators=(',', ':')); the characters of the
\* model need no escaping
json_dumps(l) == <<"[">> \o JoinQuoted(l) \o <<"]">>

\* hashlib.sha256(s.encode()).hexdigest(), taken as injective on its input
sha256_hexdigest(s) == <<"#">> \o s

(* --------------------------- JSON documents ---------------------------- *)

Keys == { <<"a">>, <<"b">> }

Scalar(kind, val) == [kind |-> kind, val |-> val, kids |-> <<>>]

\* the scalar of the generated sample documents
BaseScalars == { Scalar("num", "1") }

\* every scalar a document can hold after a value has been replaced
AllScalars ==
  BaseScalars \cup
  { Scalar("num", "2"), Scalar("str", "x"), Scalar("str", "y"),
    Scalar("bool", "true"), Scalar("bool", "false"), Scalar("null", "null") }

IsScalar(n) == n.kind \in {"str", "bool", "num", "null"}

List(kids) == [kind |-> "list", val |-> "", kids |-> kids]
Dict(kids) == [kind |-> "dict", val |-> "", kids |-> kids]

Item(n) == [key |-> <<>>, node |-> n]
Entry(k, n) == [key |-> k, node |-> n]

\* assignments of distinct keys to the positions 1..n, in sorted order (the
\* other orders are reached by reordering the keys of a document)
KeyAssignments(n) ==
  { f \in [1..n -> Keys] : \A i, j \in 1..n : i < j => StrLt(f[i], f[j]) }

RECURSIVE ValuesOfSize(_)
RECURSIVE KidSeqsOfSize(_)
\* the sequences of values whose node counts add up to m
KidSeqsOfSize(m) ==
  IF m = 0 THEN { <<>> }
  ELSE UNION { { <<v>> \o s : v \in ValuesOfSize(k), s \in KidSeqsOfSize(m - k) }
               : k \in 1..m }

\* the JSON values with exactly n nodes
ValuesOfSize(n) ==
  IF n = 1 THEN BaseScalars \cup { List(<<>>), Dict(<<>>) }
  ELSE LET S == KidSeqsOfSize(n - 1) IN
       { List([i \in 1..Len(s) |-> Item(s[i])]) : s \in S }
       \cup
       UNION { { Dict([i \in 1..Len(s) |-> Entry(f[i], s[i])])
                 : f \in KeyAssignments(Len(s)) }
               : s \in { t \in S : Len(t) <= Cardinality(Keys) } }

\* the sample documents: JSON objects of at most MaxNodes nodes
Docs ==
  UNION { { d \in ValuesOfSize(n) : d.kind = "dict" } : n \in 1..MaxNodes }

RECURSIVE Size(_)
RECURSIVE SizeKids(_, _)
SizeKids(kids, i) ==
  IF i > Len(kids) THEN 0 ELSE Size(kids[i].node) + SizeKids(kids, i + 1)
Size(n) == 1 + SizeKids(n.kids, 1)

(* ------------- json_to_schema/checksum_generator.py -------------------- *)

KeySeq(o) == [i \in 1..Len(o.kids) |-> o.kids[i].key]

\* o[k]
Lookup(o, k) == (CHOOSE i \in 1..Len(o.kids) : o.kids[i].key = k)

RECURSIVE recurse(_, _, _, _)
RECURSIVE recurseKeys(_, _, _, _, _, _)
RECURSIVE recurseItems(_, _, _, _, _)

\* the loop `for k in sorted(o)` from its i-th key on
recurseKeys(o, ks, i, path, optional_fields, allow_null_fields) ==
  IF i > Len(ks) THEN <<>>
  ELSE
    LET k == ks[i]
        key0 == JoinPath(path, k)
        key1 == IF key0 \in optional_fields THEN key0 \o <<"0">> ELSE key0
        full_key == IF key1 \in allow_null_fields THEN key1 \o <<"1">> ELSE key1
    IN  <<full_key>>
        \o recurse(o.kids[Lookup(o, k)].node, full_key, optional_fields, allow_null_fields)
        \o recurseKeys(o, ks, i + 1, path, optional_fields, allow_null_fields)

\* the loop `for item in o` from its i-th item on
recurseItems(o, i, path, optional_fields, allow_null_fields) ==
  IF i > Len(o.kids) THEN <<>>
  ELSE recurse(o.kids[i].node, path, optional_fields, allow_null_fields)
       \o recurseItems(o, i + 1, path, optional_fields, allow_null_fields)

\* the keys that recurse(o, path) appends to `keys`, in order
recurse(o, path, optional_fields, allow_null_fields) ==
  IF o.kind = "dict"
    THEN recurseKeys(o, sorted(KeySeq(o)), 1, path, optional_fields, allow_null_fields)
  ELSE IF o.kind = "list"
    THEN recurseItems(o, 1, path, optional_fields, allow_null_fields)
  ELSE <<>>

extract_keys_from_json(obj, optional_fields, allow_null_fields) ==
  recurse(obj, <<>>, optional_fields, allow_null_fields)

generate_checksum_from_keys(key_list) ==
  sha256_hexdigest(json_dumps(sorted(key_list)))

get_json_checksum(data, optional_fields, allow_null_fields) ==
  generate_checksum_from_keys(
    extract_keys_from_json(data, optional_fields, allow_null_fields))

(* ------------- json_to_schema/json_schema_generator.py ----------------- *)

(***************************************************************************)
(* A schema fragment (a Python dict) is a record                           *)
(*   [type, anyOf, items, properties, required]                            *)
(* where an absent key is the empty value: type "" when the dict has no    *)
(* "type", anyOf <<>> when it has no "anyOf", items <<>> or <<fragment>>,  *)
(* properties a sequence of [key, schema] in insertion order, required a   *)
(* sequence of keys (the code never stores an empty "required").           *)
(* NoneSchema stands for Python's None.                                    *)
(***************************************************************************)
Fragment(t) ==
  [type |-> t, anyOf |-> <<>>, items |-> <<>>, properties |-> <<>>,
   required |-> <<>>]

NoneSchema == Fragment("None")

AnyOf(l) ==
  [type |-> "", anyOf |-> l, items |-> <<>>, properties |-> <<>>,
   required |-> <<>>]

\* Python's == on two fragments: dicts compare as maps (key order is
\* ignored), lists compare element by element in order
RECURSIVE PyEq(_, _)
PyEq(s, t) ==
  /\ s.type = t.type
  /\ s.required = t.required
  /\ Len(s.anyOf) = Len(t.anyOf)
  /\ \A i \in 1..Len(s.anyOf) : PyEq(s.anyOf[i], t.anyOf[i])
  /\ Len(s.items) = Len(t.items)
  /\ \A i \in 1..Len(s.items) : PyEq(s.items[i], t.items[i])
  /\ Len(s.properties) = Len(t.properties)
  /\ \A i \in 1..Len(s.properties) :
       \E j \in 1..Len(t.properties) :
          /\ s.properties[i].key = t.properties[j].key
          /\ PyEq(s.properties[i].schema, t.properties[j].schema)

\* f"{path}.{key}" if path and key else key or path
CurrentPath(path, key) ==
  IF path # <<>> /\ key # <<>> THEN path \o <<".">> \o key
  ELSE IF key # <<>> THEN key ELSE path

\* a test of `current_path in exclude_fields` that is made for the top-level
\* fields only
is_excluded_top_level(current_path, exclude_fields) ==
  current_path \in exclude_fields /\ \A i \in 1..Len(current_path) : current_path[i] # "."

\* if current_path in exclude_fields: return None
is_excluded(current_path, exclude_fields) == current_path \in exclude_fields

\* a test that takes every field for required
is_required_always(full_key, optional_fields) == TRUE

\* if full_key not in optional_fields: reqs.append(k)
is_required(full_key, optional_fields) == full_key \notin optional_fields

\* an `items` that is the fragment of the first item
items_first(item_schemas) ==
  IF item_schemas = <<>> THEN <<>> ELSE <<item_schemas[1]>>

\* base_type["items"] = item_schemas[0] if len(item_schemas) == 1
\*                      else {"anyOf": item_schemas}, set when item_schemas
\* is not empty (<<>> while the key is absent)
items_of(item_schemas) ==
  IF item_schemas = <<>> THEN <<>>
  ELSE IF Len(item_schemas) = 1 THEN <<item_schemas[1]>>
  ELSE <<[type |-> "", anyOf |-> item_schemas, items |-> <<>>,
          properties |-> <<>>, required |-> <<>>]>>

RECURSIVE infer_type(_, _, _, _, _, _)
RECURSIVE inferItems(_, _, _, _, _, _, _)
RECURSIVE inferProps(_, _, _, _, _, _, _, _)

\* the loop over the items of a list from its i-th item on; item_schemas
\* holds the distinct fragments seen so far
inferItems(value, i, current_path, item_schemas, O, N, E) ==
  IF i > Len(value.kids) THEN item_schemas
  ELSE
    LET item_schema == infer_type(<<>>, value.kids[i].node, current_path, O, N, E)
        seen == \E j \in 1..Len(item_schemas) : PyEq(item_schema, item_schemas[j])
    IN  inferItems(value, i + 1, current_path,
                   IF item_schema # NoneSchema /\ ~seen
                     THEN Append(item_schemas, item_schema)
                     ELSE item_schemas,
                   O, N, E)

\* the loop `for k, v in value.items()` from its i-th entry on
inferProps(value, i, current_path, props, reqs, O, N, E) ==
  IF i > Len(value.kids) THEN [props |-> props, reqs |-> reqs]
  ELSE
    LET k == value.kids[i].key
        inferred == infer_type(k, value.kids[i].node, current_path, O, N, E)
        full_key == JoinPath(current_path, k)
    IN  IF inferred # NoneSchema
          THEN inferProps(value, i + 1, current_path,
                          Append(props, [key |-> k, schema |-> inferred]),
                          IF is_required(full_key, O) THEN Append(reqs, k) ELSE reqs,
                          O, N, E)
          ELSE inferProps(value, i + 1, current_path, props, reqs, O, N, E)

\* an isinstance chain that takes the falsy scalars (false, the empty
\* string) for null
scalar_type_falsy(value) ==
  IF value.val \in {"false", ""} THEN "null"
  ELSE IF value.kind = "str" THEN "string"
  ELSE IF value.kind = "bool" THEN "boolean"
  ELSE IF value.kind = "num" THEN "number"
  ELSE "null"

\* an isinstance chain without the test for str: strings fall through to
\* null
scalar_type_no_str(value) ==
  IF value.kind = "bool" THEN "boolean"
  ELSE IF value.kind = "num" THEN "number"
  ELSE "null"

\* the isinstance chain of infer_type for a value that is neither a list nor
\* a dict: str, then bool, then int or float, else null
scalar_type(value) ==
  IF value.kind = "str" THEN "string"
  ELSE IF value.kind = "bool" THEN "boolean"
  ELSE IF value.kind = "num" THEN "number"
  ELSE "null"

\* infer_type(key, value, path) under optional_fields O, allow_null_fields N
\* and exclude_fields E
infer_type(key, value, path, O, N, E) ==
  LET current_path == CurrentPath(path, key)
      wrap(base_type) ==
        IF current_path \in N /\ base_type.type # "null"
          THEN AnyOf(<<base_type, Fragment("null")>>)
          ELSE base_type
  IN
  IF is_excluded(current_path, E) THEN NoneSchema
  ELSE IF value.kind = "list" THEN
    LET item_schemas == inferItems(value, 1, current_path, <<>>, O, N, E)
    IN  wrap([Fragment("array") EXCEPT !.items = items_of(item_schemas)])
  ELSE IF value.kind = "dict" THEN
    LET r == inferProps(value, 1, current_path, <<>>, <<>>, O, N, E)
    IN  [Fragment("object") EXCEPT !.properties = r.props, !.required = r.reqs]
  ELSE wrap(Fragment(scalar_type(value)))

RECURSIVE topLevel(_, _, _, _, _, _, _)
\* the loop `for k, v in json_obj.items()` of json_to_schema
topLevel(json_obj, i, properties, required_fields, O, N, E) ==
  IF i > Len(json_obj.kids) THEN [props |-> properties, reqs |-> required_fields]
  ELSE
    LET k == json_obj.kids[i].key
        inferred == infer_type(k, json_obj.kids[i].node, <<>>, O, N, E)
    IN  IF inferred # NoneSchema
          THEN topLevel(json_obj, i + 1,
                        Append(properties, [key |-> k, schema |-> inferred]),
                        IF is_required(k, O) THEN Append(required_fields, k)
                                             ELSE required_fields,
                        O, N, E)
          ELSE topLevel(json_obj, i + 1, properties, required_fields, O, N, E)

\* the schema document: "$schema", "type", "properties", "required" and the
\* "checksum_id" the callers add (<<>> while the key is absent)
json_to_schema(json_obj, optional_fields, allow_null_fields, exclude_fields) ==
  LET r == topLevel(json_obj, 1, <<>>, <<>>, optional_fields,
                    allow_null_fields, exclude_fields)
  IN  [dollar_schema |-> "http://json-schema.org/draft-07/schema#",
       type |-> "object",
       properties |-> r.props,
       required |-> r.reqs,
       checksum_id |-> <<>>]

(* ---------------------------- XML documents ---------------------------- *)

(***************************************************************************)
(* An XML element is a record [tag, text, attrib, kids]: its tag name      *)
(* (without namespace), its text (<<>> when it has none), its attributes   *)
(* [name, value] in document order and its child elements in document      *)
(* order.                                                                  *)
(***************************************************************************)
Element(tag, text, attrib, kids) ==
  [tag |-> tag, text |-> text, attrib |-> attrib, kids |-> kids]

\* largest number of elements and attributes of a sample XML document
MaxXmlNodes == 3

RootTag == <<"r">>
ChildTags == { <<"a">>, <<"a", "1">> }
AttrNames == { <<"x">> }
AttrValues == { <<"1">> }
Texts == { <<>>, <<"1">> }

Attr(name, value) == [name |-> name, value |-> value]

RECURSIVE ElementsOfSize(_, _)
RECURSIVE ChildSeqsOfSize(_)
\* the sequences of child elements whose node counts add up to m
ChildSeqsOfSize(m) ==
  IF m = 0 THEN { <<>> }
  ELSE UNION { { <<e>> \o s : e \in ElementsOfSize(k, ChildTags),
                              s \in ChildSeqsOfSize(m - k) }
               : k \in 1..m }

\* the elements with a tag of `tags` that count n elements and attributes
ElementsOfSize(n, tags) ==
  { Element(t, x, <<>>, s) : t \in tags, x \in Texts, s \in ChildSeqsOfSize(n - 1) }
  \cup
  IF n < 2 THEN {}
  ELSE { Element(t, x, <<Attr(a[1], a[2])>>, s) :
           t \in tags, x \in Texts, a \in AttrNames \X AttrValues,
           s \in ChildSeqsOfSize(n - 2) }

XmlDocs == UNION { ElementsOfSize(n, {RootTag}) : n \in 1..MaxXmlNodes }

\* the paths a configuration entry can list for an XML file
XmlPolicyPaths ==
  { <<"r", ".", "a">>, <<"r", ".", "a", "1">>, <<"r", "@", "x">> }

XmlPolicies ==
  { p \in [optional : SUBSET XmlPolicyPaths, nullable : SUBSET XmlPolicyPaths] :
      Cardinality(p.optional) + Cardinality(p.nullable) <= MaxPolicy }

(* ---------------- xml_to_xsd/checksum_generator.py --------------------- *)

RECURSIVE xml_recurse(_, _)
RECURSIVE xml_recurseChildren(_, _, _)

\* the loop `for child in element` from its i-th child on
xml_recurseChildren(element, i, full_path) ==
  IF i > Len(element.kids) THEN <<>>
  ELSE xml_recurse(element.kids[i], full_path)
       \o xml_recurseChildren(element, i + 1, full_path)

\* the paths that recurse(element, path) appends to `elements`, in order
xml_recurse(element, path) ==
  LET full_path == JoinPath(path, element.tag)
      attrs == sorted([i \in 1..Len(element.attrib) |-> element.attrib[i].name])
  IN  <<full_path>>
      \o [i \in 1..Len(attrs) |-> full_path \o <<"@">> \o attrs[i]]
      \o xml_recurseChildren(element, 1, full_path)

extract_elements_from_xml(root) == xml_recurse(root, <<>>)

\* the suffixes given to one element path: "1" if optional, "0" if nullable
modified_element(element, optional_fields, allow_null_fields) ==
  LET m1 == IF element \in optional_fields THEN element \o <<"1">> ELSE element
  IN  IF element \in allow_null_fields THEN m1 \o <<"0">> ELSE m1

generate_checksum_from_elements(element_list, optional_fields, allow_null_fields) ==
  LET modified_elements ==
        [i \in 1..Len(element_list) |->
           modified_element(element_list[i], optional_fields, allow_null_fields)]
  IN  sha256_hexdigest(json_dumps(sorted(modified_elements)))

get_xml_checksum(root, optional_fields, allow_null_fields) ==
  generate_checksum_from_elements(extract_elements_from_xml(root),
                                  optional_fields, allow_null_fields)

(* -------------------- xml_to_xsd/xsd_generator.py ---------------------- *)

XsBoolean == <<"x", "s", ":", "b", "o", "o", "l", "e", "a", "n">>
XsInteger == <<"x", "s", ":", "i", "n", "t", "e", "g", "e", "r">>
XsDecimal == <<"x", "s", ":", "d", "e", "c", "i", "m", "a", "l">>
XsString == <<"x", "s", ":", "s", "t", "r", "i", "n", "g">>

Digits == { "0", "1", "2", "3", "4", "5", "6", "7", "8", "9" }

\* schema_inferer.infer_type(text): boolean before number before string, an
\* absent or empty value has no type of its own
xsd_infer_type(text) ==
  IF text = <<>> THEN XsString
  ELSE IF text \in { <<"1">>, <<"0">> } THEN XsBoolean
  ELSE IF \A i \in 1..Len(text) : text[i] \in Digits THEN XsInteger
  ELSE XsString

\* ".".join(names)
RECURSIVE DotJoin(_)
DotJoin(names) ==
  IF names = <<>> THEN <<>>
  ELSE IF Len(names) = 1 THEN names[1]
  ELSE names[1] \o <<".">> \o DotJoin(Tail(names))

get_current_element_path(current_path, element_name) ==
  DotJoin(current_path \o <<element_name>>)

(***************************************************************************)
(* An xs:element of the generated XSD is a record                          *)
(*   [name, minOccurs, type, complexType, mixed, sequence, attributes]     *)
(* minOccurs and type are <<>> when the attribute is not set; complexType  *)
(* tells whether the element has an xs:complexType child, whose mixed      *)
(* flag, xs:sequence of elements and xs:attribute list follow.             *)
(***************************************************************************)
\* a pop that leaves the list as it is
pop_missing(current_path) == current_path

\* self.current_path.pop()
pop(current_path) == SubSeq(current_path, 1, Len(current_path) - 1)

RECURSIVE process_element(_, _, _, _)
RECURSIVE processChildren(_, _, _, _, _, _)

\* the loop `for child in element` from its i-th child on: the elements
\* added to the sequence, self.current_path after the loop, and the calls
\* of process_element made so far (`entered`, see process_element)
processChildren(element, i, current_path, optional_fields, sequence, entered) ==
  IF i > Len(element.kids)
    THEN [sequence |-> sequence, current_path |-> current_path, entered |-> entered]
  ELSE
    LET r == process_element(element.kids[i], current_path, FALSE, optional_fields)
    IN  processChildren(element, i + 1, r.current_path, optional_fields,
                        Append(sequence, r.element_def), entered \o r.entered)

\* process_element(element, parent, is_root) run with self.current_path =
\* current_path: the xs:element added to parent, self.current_path after,
\* and, for this call and the calls it makes, in the order they are entered,
\* the self.current_path found and the element_path computed from it
process_element(element, current_path, is_root, optional_fields) ==
  LET element_name == element.tag
      element_path == get_current_element_path(current_path, element_name)
      minOccurs == IF is_root THEN <<>>
                   ELSE IF element_path \in optional_fields THEN <<"0">>
                   ELSE <<"1">>
      has_children == Len(element.kids) > 0
      has_attributes == Len(element.attrib) > 0
      has_text == element.text # <<>>
  IN
  IF has_children \/ has_attributes
    THEN
      LET pushed == Append(current_path, element_name)
          r == processChildren(element, 1, pushed, optional_fields, <<>>, <<>>)
          popped == pop(r.current_path)
      IN  [entered |-> << [current_path |-> current_path, element_path |-> element_path] >>
                       \o r.entered,
           element_def |->
             [name |-> element_name, minOccurs |-> minOccurs, type |-> <<>>,
              complexType |-> TRUE, mixed |-> has_text,
              sequence |-> r.sequence,
              attributes |->
                [i \in 1..Len(element.attrib) |->
                   [name |-> element.attrib[i].name,
                    type |-> xsd_infer_type(element.attrib[i].value)]]],
           current_path |-> popped]
    ELSE
      [element_def |->
         [name |-> element_name, minOccurs |-> minOccurs,
          type |-> xsd_infer_type(element.text),
          complexType |-> FALSE, mixed |-> FALSE, sequence |-> <<>>,
          attributes |-> <<>>],
       entered |-> << [current_path |-> current_path, element_path |-> element_path] >>,
       current_path |-> current_path]

(* ------------- xml_schema_generator.py: ElementAnalyzer ---------------- *)

XsDate == <<"x", "s", ":", "d", "a", "t", "e">>
XsDateTime == <<"x", "s", ":", "d", "a", "t", "e", "T", "i", "m", "e">>
XsAnyURI == <<"x", "s", ":", "a", "n", "y", "U", "R", "I">>

LowerLetters ==
  { "a", "b", "c", "d", "e", "f", "g", "h", "i", "j", "k", "l", "m",
    "n", "o", "p", "q", "r", "s", "t", "u", "v", "w", "x", "y", "z" }

UpperLetters ==
  { "A", "B", "C", "D", "E", "F", "G", "H", "I", "J", "K", "L", "M",
    "N", "O", "P", "Q", "R", "S", "T", "U", "V", "W", "X", "Y", "Z" }

Letters == LowerLetters \cup UpperLetters

Whitespace == { " ", "\n", "\t" }

\* c.lower() for the letters of the boolean and float literals
LowerChar(c) ==
  CASE c = "T" -> "t" [] c = "R" -> "r" [] c = "U" -> "u" [] c = "E" -> "e"
    [] c = "F" -> "f" [] c = "A" -> "a" [] c = "L" -> "l" [] c = "S" -> "s"
    [] c = "I" -> "i" [] c = "N" -> "n" [] c = "Y" -> "y"
    [] OTHER -> c

lower(value) == [i \in 1..Len(value) |-> LowerChar(value[i])]

RECURSIVE lstrip(_)
lstrip(value) ==
  IF value # <<>> /\ Head(value) \in Whitespace THEN lstrip(Tail(value)) ELSE value

RECURSIVE rstrip(_)
rstrip(value) ==
  IF value # <<>> /\ value[Len(value)] \in Whitespace
    THEN rstrip(SubSeq(value, 1, Len(value) - 1))
    ELSE value

strip(value) == rstrip(lstrip(value))

AllDigits(v) == v # <<>> /\ \A i \in 1..Len(v) : v[i] \in Digits

Unsigned(v) == IF v # <<>> /\ v[1] \in { "+", "-" } THEN Tail(v) ELSE v

\* int(value) does not raise ValueError (values without "_")
ParsesAsInt(value) == AllDigits(Unsigned(value))

\* digits with an optional fraction, or a fraction alone
IsDecimalPart(v) ==
  \/ AllDigits(v)
  \/ \E i \in 1..Len(v) :
        /\ v[i] = "."
        /\ \/ AllDigits(SubSeq(v, 1, i - 1)) /\ i = Len(v)
           \/ AllDigits(SubSeq(v, 1, i - 1)) /\ AllDigits(SubSeq(v, i + 1, Len(v)))
           \/ i = 1 /\ AllDigits(SubSeq(v, i + 1, Len(v)))

\* float(value) does not raise ValueError (values without "_")
ParsesAsFloat(value) ==
  LET v == lower(Unsigned(value)) IN
  \/ v \in { <<"i", "n", "f">>, <<"n", "a", "n">>,
             <<"i", "n", "f", "i", "n", "i", "t", "y">> }
  \/ IsDecimalPart(v)
  \/ \E i \in 1..Len(v) :
        /\ v[i] = "e"
        /\ IsDecimalPart(SubSeq(v, 1, i - 1))
        /\ AllDigits(Unsigned(SubSeq(v, i + 1, Len(v))))

\* re.match of a pattern of literal characters and "d" for \d; anchored at
\* the end when `whole`
MatchesDigitsPattern(value, pattern, whole) ==
  /\ Len(value) >= Len(pattern)
  /\ whole => Len(value) = Len(pattern)
  /\ \A i \in 1..Len(pattern) :
       IF pattern[i] = "d" THEN value[i] \in Digits ELSE value[i] = pattern[i]

date_patterns ==
  << [pattern |-> <<"d", "d", "d", "d", "-", "d", "d", "-", "d", "d">>, whole |-> TRUE],
     [pattern |-> <<"d", "d", "d", "d", "-", "d", "d", "-", "d", "d", "T",
                    "d", "d", ":", "d", "d", ":", "d", "d">>, whole |-> FALSE],
     [pattern |-> <<"d", "d", "/", "d", "d", "/", "d", "d", "d", "d">>, whole |-> TRUE] >>

AllIn(v, class) == v # <<>> /\ \A i \in 1..Len(v) : v[i] \in class

\* ^[a-zA-Z0-9._%+-]+@[a-zA-Z0-9.-]+\.[a-zA-Z]{2,}$
MatchesEmail(value) ==
  \E i, j \in 1..Len(value) :
    /\ i < j
    /\ value[i] = "@"
    /\ value[j] = "."
    /\ AllIn(SubSeq(value, 1, i - 1), Letters \cup Digits \cup { ".", "_", "%", "+", "-" })
    /\ AllIn(SubSeq(value, i + 1, j - 1), Letters \cup Digits \cup { ".", "-" })
    /\ Len(value) - j >= 2
    /\ AllIn(SubSeq(value, j + 1, Len(value)), Letters)

\* urlparse(value) has a scheme and a netloc
HasSchemeAndNetloc(value) ==
  \E i \in 1..Len(value) :
    /\ value[i] = ":"
    /\ i > 1
    /\ value[1] \in Letters
    /\ AllIn(SubSeq(value, 1, i - 1), Letters \cup Digits \cup { "+", "-", "." })
    /\ Len(value) >= i + 3
    /\ value[i + 1] = "/"
    /\ value[i + 2] = "/"
    /\ value[i + 3] \notin { "/", "?", "#" }

\* a classification that tries int() and float() before the boolean literals
infer_data_type_numbers_first(value0) ==
  IF value0 = <<>> \/ strip(value0) = <<>> THEN XsString
  ELSE
    LET value == strip(value0) IN
    IF ParsesAsInt(value) THEN XsInteger
    ELSE IF ParsesAsFloat(value) THEN XsDecimal
    ELSE IF lower(value) \in { <<"t", "r", "u", "e">>, <<"f", "a", "l", "s", "e">> }
      THEN XsBoolean
    ELSE XsString

\* ElementAnalyzer._infer_data_type
infer_data_type(value0) ==
  IF value0 = <<>> \/ strip(value0) = <<>> THEN XsString
  ELSE
    LET value == strip(value0) IN
    IF lower(value) \in { <<"t", "r", "u", "e">>, <<"f", "a", "l", "s", "e">>,
                          <<"1">>, <<"0">> }
      THEN XsBoolean
    ELSE IF ParsesAsInt(value) THEN XsInteger
    ELSE IF ParsesAsFloat(value) THEN XsDecimal
    ELSE IF \E k \in 1..Len(date_patterns) :
              MatchesDigitsPattern(value, date_patterns[k].pattern, date_patterns[k].whole)
      THEN (IF \E i \in 1..Len(value) : value[i] = "T" THEN XsDateTime ELSE XsDate)
    ELSE IF MatchesEmail(value) THEN XsString
    ELSE IF HasSchemeAndNetloc(value) THEN XsAnyURI
    ELSE XsString

AllTags == {RootTag} \cup ChildTags

\* the value the defaultdict element_stats creates for a new tag;
\* attribute_types is kept as a sequence of [name, types] in insertion
\* order, child_counts[child_tag] as the set of keys of its Counter
DefaultStats ==
  [count |-> 0, has_text |-> FALSE, has_children |-> FALSE,
   has_attributes |-> FALSE, attribute_types |-> <<>>, text_types |-> {},
   child_counts |-> [t \in AllTags |-> {}], paths |-> {}, parent_paths |-> {},
   is_recursive |-> FALSE]

\* `needle in haystack` for two Python strings
Contains(haystack, needle) ==
  \E i \in 1..(Len(haystack) + 1) :
    /\ i + Len(needle) - 1 <= Len(haystack)
    /\ SubSeq(haystack, i, i + Len(needle) - 1) = needle

RECURSIVE AddAttributeTypes(_, _, _)
\* the loop over root.attrib.items() from its i-th attribute on
AddAttributeTypes(attribute_types, attrib, i) ==
  IF i > Len(attrib) THEN attribute_types
  ELSE
    LET attr_type == infer_data_type(attrib[i].value)
        known == { j \in 1..Len(attribute_types) : attribute_types[j].name = attrib[i].name }
        next == IF known = {}
                  THEN Append(attribute_types,
                              [name |-> attrib[i].name, types |-> {attr_type}])
                  ELSE [j \in 1..Len(attribute_types) |->
                          IF j \in known
                            THEN [attribute_types[j] EXCEPT !.types = @ \cup {attr_type}]
                            ELSE attribute_types[j]]
    IN  AddAttributeTypes(next, attrib, i + 1)

\* the number of children of root with the given tag
ChildCount(root, tag) ==
  Cardinality({ i \in 1..Len(root.kids) : root.kids[i].tag = tag })

RECURSIVE analyze_xml_structure(_, _, _, _)
RECURSIVE analyzeChildren(_, _, _, _, _)

\* the recursive calls of the loop `for child in root` from the i-th child on
analyzeChildren(root, i, full_path, tag_name, element_stats) ==
  IF i > Len(root.kids) THEN element_stats
  ELSE analyzeChildren(root, i + 1, full_path, tag_name,
         analyze_xml_structure(root.kids[i], full_path, tag_name, element_stats))

\* element_stats after analyze_xml_structure(root, path, parent_path)
analyze_xml_structure(root, path, parent_path, element_stats) ==
  LET tag_name == root.tag
      full_path == JoinPath(path, tag_name)
      has_text == strip(root.text) # <<>>
      s1 == [element_stats EXCEPT ![tag_name] =
               [@ EXCEPT
                  !.count = @ + 1,
                  !.paths = @ \cup {full_path},
                  !.parent_paths = IF parent_path # <<>> THEN @ \cup {parent_path} ELSE @,
                  !.is_recursive = @ \/ Contains(path, tag_name),
                  !.has_text = @ \/ has_text,
                  !.text_types =
                     IF has_text THEN @ \cup {infer_data_type(strip(root.text))} ELSE @,
                  !.has_attributes = @ \/ (Len(root.attrib) > 0),
                  !.attribute_types = AddAttributeTypes(@, root.attrib, 1)]]
  IN
  IF Len(root.kids) > 0
    THEN
      LET s2 == [s1 EXCEPT ![tag_name].has_children = TRUE]
          s3 == analyzeChildren(root, 1, full_path, tag_name, s2)
      IN  [s3 EXCEPT ![tag_name].child_counts =
             [t \in AllTags |->
                IF ChildCount(root, t) > 0 THEN @[t] \cup {ChildCount(root, t)} ELSE @[t]]]
    ELSE s1

TypeSuffix == <<"T", "y", "p", "e">>

\* str.endswith("Type")
EndsWithType(name) ==
  Len(name) >= Len(TypeSuffix)
  /\ SubSeq(name, Len(name) - Len(TypeSuffix) + 1, Len(name)) = TypeSuffix

\* ElementAnalyzer.get_element_type
get_element_type(element_stats, tag_name) ==
  LET stats == element_stats[tag_name] IN
  IF stats.has_text /\ ~stats.has_children /\ ~stats.has_attributes
    THEN IF Cardinality(stats.text_types) = 1
           THEN CHOOSE t \in stats.text_types : TRUE
           ELSE XsString
    ELSE tag_name \o TypeSuffix

SetMax(S) == CHOOSE m \in S : \A n \in S : n <= m

\* ElementAnalyzer.get_occurrence_constraints
get_occurrence_constraints(element_stats, optional_elements, parent_tag, child_tag, path) ==
  LET child_counts == element_stats[parent_tag].child_counts[child_tag]
  IN  [min_occurs |-> IF path \in optional_elements THEN <<"0">> ELSE <<"1">>,
       max_occurs |-> IF child_counts # {}
                        THEN IF SetMax(child_counts) > 1 THEN "unbounded" ELSE "1"
                        ELSE "1"]

(* ----------- xml_schema_generator.py: EnhancedXSDGenerator ------------- *)

(***************************************************************************)
(* The generated xs:schema is the sequence of its children, each a record  *)
(*   [kind, name, type, mixed, has_sequence, sequence, simpleContent,      *)
(*    attributes]                                                          *)
(* kind "element" (name, type) or "complexType" (name, mixed, the          *)
(* xs:sequence of element declarations [ref, name, type, minOccurs,        *)
(* maxOccurs], the base of its xs:simpleContent extension, its             *)
(* xs:attribute list [name, type, use]); <<>> is an attribute not set.     *)
(* The generator state g holds these items with generated_types and        *)
(* global_elements; the analyzer a holds element_stats, optional_elements  *)
(* and, as first_path, the path that the iteration over the set            *)
(* stats['paths'] yields first for each tag.                               *)
(***************************************************************************)
SchemaElement(name, type) ==
  [kind |-> "element", name |-> name, type |-> type, mixed |-> FALSE,
   has_sequence |-> FALSE, sequence |-> <<>>, simpleContent |-> <<>>,
   attributes |-> <<>>]

\* the tags of the children of sample_element in order of first occurrence
ChildTagOrder(sample_element) ==
  LET firsts == { i \in 1..Len(sample_element.kids) :
                    \A j \in 1..(i - 1) : sample_element.kids[j].tag # sample_element.kids[i].tag }
      nth[k \in 1..Cardinality(firsts)] ==
        CHOOSE i \in firsts : Cardinality({ j \in firsts : j < i }) = k - 1
  IN  [k \in 1..Cardinality(firsts) |-> sample_element.kids[nth[k]].tag]

\* child_elements[0] of children_by_tag[child_tag]
FirstChild(sample_element, child_tag) ==
  sample_element.kids[CHOOSE i \in 1..Len(sample_element.kids) :
                        /\ sample_element.kids[i].tag = child_tag
                        /\ \A j \in 1..(i - 1) : sample_element.kids[j].tag # child_tag]

\* EnhancedXSDGenerator._generate_attributes
generate_attributes(a, type_name) ==
  LET attribute_types == a.element_stats[type_name].attribute_types
  IN  [i \in 1..Len(attribute_types) |->
         [name |-> attribute_types[i].name,
          type |-> IF Cardinality(attribute_types[i].types) = 1
                     THEN CHOOSE t \in attribute_types[i].types : TRUE
                     ELSE XsString,
          use |-> IF (type_name \o <<"@">> \o attribute_types[i].name) \in a.optional_elements
                    THEN "optional" ELSE "required"]]

\* the base of EnhancedXSDGenerator._generate_simple_content_with_attributes
simple_content_base(a, type_name) ==
  LET text_types == a.element_stats[type_name].text_types
  IN  IF Cardinality(text_types) = 1 THEN CHOOSE t \in text_types : TRUE ELSE XsString

RECURSIVE generate_complex_type(_, _, _, _)
RECURSIVE generate_content_model(_, _, _, _, _, _, _)
RECURSIVE generate_global_element(_, _, _, _)

\* EnhancedXSDGenerator._generate_complex_type: the generator state after
generate_complex_type(g, type_name, sample_element, a) ==
  IF type_name \in g.generated_types THEN g
  ELSE
    LET stats == a.element_stats[type_name]
        at == Len(g.items) + 1
        complex_type ==
          [kind |-> "complexType", name |-> type_name \o TypeSuffix, type |-> <<>>,
           mixed |-> stats.has_text /\ stats.has_children,
           has_sequence |-> FALSE, sequence |-> <<>>, simpleContent |-> <<>>,
           attributes |-> <<>>]
        g1 == [g EXCEPT !.generated_types = @ \cup {type_name},
                        !.items = Append(@, complex_type)]
        cm == IF stats.has_children
                THEN generate_content_model(g1, type_name, sample_element, a,
                                            ChildTagOrder(sample_element), 1, <<>>)
                ELSE [g |-> g1, sequence |-> <<>>]
    IN  [cm.g EXCEPT
           !.items[at] =
              [@ EXCEPT
                 !.has_sequence = stats.has_children,
                 !.sequence = cm.sequence,
                 !.simpleContent =
                    IF ~stats.has_children /\ stats.has_text /\ stats.has_attributes
                      THEN simple_content_base(a, type_name) ELSE <<>>,
                 !.attributes =
                    IF stats.has_attributes THEN generate_attributes(a, type_name)
                                            ELSE <<>>]]

\* EnhancedXSDGenerator._generate_content_model from the i-th child tag on:
\* the generator state after and the declarations of the xs:sequence
generate_content_model(g, parent_type, sample_element, a, tags, i, sequence) ==
  IF i > Len(tags) THEN [g |-> g, sequence |-> sequence]
  ELSE
    LET child_tag == tags[i]
        first == FirstChild(sample_element, child_tag)
        parent_path == a.first_path[parent_type]
        child_type == get_element_type(a.element_stats, child_tag)
        recursive == a.element_stats[child_tag].is_recursive
        g1 == IF recursive
                THEN IF child_tag \notin g.global_elements
                       THEN generate_global_element(g, child_tag, first, a)
                       ELSE g
                ELSE IF EndsWithType(child_type)
                       THEN generate_complex_type(g, child_tag, first, a)
                       ELSE g
        child_path == IF parent_path # <<>>
                        THEN parent_path \o <<".">> \o child_tag
                        ELSE parent_type \o <<".">> \o child_tag
        occurs == get_occurrence_constraints(a.element_stats, a.optional_elements,
                                             parent_type, child_tag, child_path)
        element_elem ==
          [ref |-> IF recursive THEN child_tag ELSE <<>>,
           name |-> IF recursive THEN <<>> ELSE child_tag,
           type |-> IF recursive THEN <<>> ELSE child_type,
           minOccurs |-> occurs.min_occurs,
           maxOccurs |-> IF occurs.max_occurs # "1" THEN occurs.max_occurs ELSE ""]
    IN  generate_content_model(g1, parent_type, sample_element, a, tags, i + 1,
                               Append(sequence, element_elem))

\* EnhancedXSDGenerator._generate_global_element: the generator state after
generate_global_element(g, element_name, sample_element, a) ==
  IF element_name \in g.global_elements THEN g
  ELSE
    LET element_type == get_element_type(a.element_stats, element_name)
        g1 == [g EXCEPT !.global_elements = @ \cup {element_name},
                        !.items = Append(@, SchemaElement(element_name, element_type))]
    IN  IF EndsWithType(element_type) /\ element_name \notin g1.generated_types
          THEN generate_complex_type(g1, element_name, sample_element, a)
          ELSE g1

\* EnhancedXSDGenerator.generate_xsd: the children of the xs:schema element
\* (documents without namespaces: no targetNamespace)
enhanced_generate_xsd(root, a) ==
  LET root_tag == root.tag
      root_type == get_element_type(a.element_stats, root_tag)
      g == [items |-> <<SchemaElement(root_tag, root_type)>>,
            generated_types |-> {}, global_elements |-> {}]
  IN  IF EndsWithType(root_type)
        THEN generate_complex_type(g, root_tag, root, a).items
        ELSE g.items

\* the orders in which the sets stats['paths'] can be iterated, as the path
\* that comes first for each tag (<<>> for a tag that has no path)
FirstPathChoices(element_stats) ==
  { f \in [AllTags -> UNION { element_stats[t].paths : t \in AllTags } \cup { <<>> }] :
      \A t \in AllTags :
         IF element_stats[t].paths = {} THEN f[t] = <<>>
         ELSE f[t] \in element_stats[t].paths }

\* the schemas enhanced_xml_to_xsd(root, optional_elements) can return
enhanced_xml_to_xsd(root, optional_elements) ==
  LET element_stats ==
        analyze_xml_structure(root, <<>>, <<>>, [t \in AllTags |-> DefaultStats])
  IN  { enhanced_generate_xsd(root,
          [element_stats |-> element_stats, optional_elements |-> optional_elements,
           first_path |-> f])
        : f \in FirstPathChoices(element_stats) }

\* xml_schema_generator.extract_elements_from_xml is the same walk as the one
\* of xml_to_xsd; its get_xml_checksum ignores filename and configs
main_get_xml_checksum(root) ==
  sha256_hexdigest(json_dumps(sorted(extract_elements_from_xml(root))))

(* ------------------------------ main.py -------------------------------- *)

RECURSIVE main_recurse(_, _, _)
RECURSIVE main_recurseKeys(_, _, _, _, _)
RECURSIVE main_recurseItems(_, _, _, _)

\* the loop `for k in sorted(o)` of main.py from its i-th key on
main_recurseKeys(o, ks, i, path, optional_fields) ==
  IF i > Len(ks) THEN <<>>
  ELSE
    LET full_key == JoinPath(path, ks[i])
    IN  (IF full_key \notin optional_fields THEN <<full_key>> ELSE <<>>)
        \o main_recurse(o.kids[Lookup(o, ks[i])].node, full_key, optional_fields)
        \o main_recurseKeys(o, ks, i + 1, path, optional_fields)

main_recurseItems(o, i, path, optional_fields) ==
  IF i > Len(o.kids) THEN <<>>
  ELSE main_recurse(o.kids[i].node, path, optional_fields)
       \o main_recurseItems(o, i + 1, path, optional_fields)

main_recurse(o, path, optional_fields) ==
  IF o.kind = "dict"
    THEN main_recurseKeys(o, sorted(KeySeq(o)), 1, path, optional_fields)
  ELSE IF o.kind = "list"
    THEN main_recurseItems(o, 1, path, optional_fields)
  ELSE <<>>

\* main.get_json_checksum for a file whose configuration entry lists
\* optional_fields
main_get_json_checksum(data, optional_fields) ==
  sha256_hexdigest(json_dumps(sorted(main_recurse(data, <<>>, optional_fields))))

\* the JSON Schema type keyword
TypeMatches(value, type) ==
  CASE type = "string" -> value.kind = "str"
    [] type = "boolean" -> value.kind = "bool"
    [] type = "number" -> value.kind = "num"
    [] type = "null" -> value.kind = "null"
    [] type = "array" -> value.kind = "list"
    [] type = "object" -> value.kind = "dict"
    [] OTHER -> FALSE

HasKey(value, k) == \E i \in 1..Len(value.kids) : value.kids[i].key = k

\* Draft7Validator(schema).iter_errors(value) yields no error, for the
\* keywords the generated schemas use: type, anyOf, items, properties,
\* required
RECURSIVE IsValid(_, _)
IsValid(value, schema) ==
  /\ schema.type # "" => TypeMatches(value, schema.type)
  /\ schema.anyOf # <<>> => \E i \in 1..Len(schema.anyOf) : IsValid(value, schema.anyOf[i])
  /\ (schema.items # <<>> /\ value.kind = "list") =>
        \A i \in 1..Len(value.kids) : IsValid(value.kids[i].node, schema.items[1])
  /\ value.kind = "dict" =>
        /\ \A i \in 1..Len(schema.properties) :
              HasKey(value, schema.properties[i].key) =>
                 IsValid(value.kids[Lookup(value, schema.properties[i].key)].node,
                         schema.properties[i].schema)
        /\ \A i \in 1..Len(schema.required) : HasKey(value, schema.required[i])

\* json_validator(json_obj, schema_obj) of main.py; "$schema" and
\* "checksum_id" constrain nothing
json_validator(json_obj, schema_obj) ==
  IsValid(json_obj,
          [type |-> schema_obj.type, anyOf |-> <<>>, items |-> <<>>,
           properties |-> schema_obj.properties, required |-> schema_obj.required])

(* ---------------------- files and schema directory --------------------- *)

\* largest number of nodes of the files given to the file operations
MaxCacheNodes == 2

\* a JSON file that is not well-formed JSON
UnparseableJson == [kind |-> "unparseable", val |-> "", kids |-> <<>>]

\* a JSON file whose bytes are not UTF-8 text
UndecodableJson == [kind |-> "undecodable", val |-> "", kids |-> <<>>]

\* reading without finding anything wrong
json_load_raises_nothing(file) == ""

\* the exception that json.load(f) raises on the file opened as UTF-8 text,
\* "" if it returns the document
json_load_raises(file) ==
  IF file.kind = "unparseable" THEN "JSONDecodeError"
  ELSE IF file.kind = "undecodable" THEN "UnicodeDecodeError"
  ELSE ""

\* an XML file that the XML parser cannot parse
UnparseableXml == Element(<<>>, <<"<">>, <<>>, <<>>)

\* the result of a call: what it returned ("True", "False", "None" for
\* falling off the end, "schema" for a schema, "raise" for an exception),
\* the schema it returned or held in memory, whether it ran the schema
\* generation, which schema it gave to the validator ("no", "existing",
\* "new") and whether it wrote the entry; existed tells whether an entry was
\* stored under the document's fingerprint when the call began, repeated
\* whether the call before was the same operation on the same file with the
\* same configuration entry and completed successfully
Result(op, file, p, write_ok, existed, returned, error, schema, generated, validated, wrote) ==
  [op |-> op, file |-> file, policy |-> p, write_ok |-> write_ok,
   existed |-> existed, returned |-> returned, error |-> error,
   schema |-> schema, generated |-> generated, validated |-> validated,
   wrote |-> wrote, repeated |-> FALSE, printed |-> <<>>]

\* the result r of a call that has printed the messages msgs
Printing(r, msgs) == [r EXCEPT !.printed = msgs]

\* what json_validator prints: nothing when the document is valid
validator_prints(valid) ==
  IF valid THEN <<>> ELSE << "JSON validation failed" >>

NoCall ==
  Result("none", <<>>, <<>>, FALSE, FALSE, "none", "", <<>>, FALSE, "no", FALSE)

\* a write that leaves no file
WriteFile_lost(dir, name, content) == dir

\* the directory with the entry `content` written under `name`
WriteFile(dir, name, content) ==
  [f \in DOMAIN dir \cup {name} |-> IF f = name THEN content ELSE dir[f]]

\* main.process_json_file(filename, configs) for a file with the given
\* content and configuration entry p, in schema directory dir, the write of
\* the schema file succeeding or not: the directory after and the result
process_json_file(file, p, write_ok, dir) ==
  IF json_load_raises(file) = "JSONDecodeError" THEN
    [dir |-> dir,
     last |-> Printing(Result("process_json_file", file, p, write_ok, FALSE, "False", "",
                              <<>>, FALSE, "no", FALSE),
                       << "Invalid JSON" >>)]
  ELSE IF json_load_raises(file) # "" THEN
    \* only json.JSONDecodeError is caught
    [dir |-> dir,
     last |-> Result("process_json_file", file, p, write_ok, FALSE, "raise",
                     json_load_raises(file), <<>>, FALSE, "no", FALSE)]
  ELSE
    LET checksum_id == main_get_json_checksum(file, p.optional)
        existed == checksum_id \in DOMAIN dir
    IN
    IF existed THEN
      [dir |-> dir,
       last |-> Printing(Result("process_json_file", file, p, write_ok, existed,
                                IF json_validator(file, dir[checksum_id])
                                  THEN "True" ELSE "False",
                                "", dir[checksum_id], FALSE, "existing", FALSE),
                         validator_prints(json_validator(file, dir[checksum_id])))]
    ELSE
      LET schema_data ==
            [json_to_schema(file, p.optional, p.nullable, {})
               EXCEPT !.checksum_id = checksum_id]
      IN
      IF ~write_ok THEN
        [dir |-> dir,
         last |-> Result("process_json_file", file, p, write_ok, existed, "False", "",
                         schema_data, TRUE, "no", FALSE)]
      ELSE
        [dir |-> WriteFile(dir, checksum_id, schema_data),
         last |-> Printing(Result("process_json_file", file, p, write_ok, existed,
                                  IF json_validator(file, schema_data)
                                    THEN "True" ELSE "False",
                                  "", schema_data, TRUE, "new", TRUE),
                           validator_prints(json_validator(file, schema_data)))]

\* xml_schema_generator.process_xml_file(filename, configs); xml_schema is
\* the schema enhanced_xml_to_xsd returns if it is called, valid the verdict
\* of the XML Schema validator if it is called
process_xml_file(file, p, write_ok, valid, xml_schema, dir) ==
  IF file = UnparseableXml THEN
    [dir |-> dir,
     last |-> Result("process_xml_file", file, p, write_ok, FALSE, "False", "",
                     <<>>, FALSE, "no", FALSE)]
  ELSE
    LET optional_elements == p.optional
        checksum_id == main_get_xml_checksum(file)
        existed == checksum_id \in DOMAIN dir
        force_regenerate == optional_elements # {} /\ existed
    IN
    IF ~force_regenerate /\ existed THEN
      [dir |-> dir,
       last |-> Result("process_xml_file", file, p, write_ok, existed,
                       IF valid THEN "True" ELSE "None", "",
                       dir[checksum_id], FALSE, "existing", FALSE)]
    ELSE
      LET content == [comment |-> checksum_id, schema |-> xml_schema]
      IN
      IF ~write_ok THEN
        [dir |-> dir,
         last |-> Result("process_xml_file", file, p, write_ok, existed, "False", "",
                         content, TRUE, "no", FALSE)]
      ELSE
        [dir |-> WriteFile(dir, checksum_id, content),
         last |-> Result("process_xml_file", file, p, write_ok, existed,
                         IF valid THEN "True" ELSE "False", "",
                         content, TRUE, "new", TRUE)]

\* XSDGenerator.generate_xsd(xml_path, xsd_path); an XSD text is the record
\* [declaration, schema]: whether it starts with an XML declaration, and its
\* root xs:element
generate_xsd(file, p, write_ok, dir) ==
  IF file = UnparseableXml THEN
    \* load_xml returns None, which `xml_tree, root = ...` cannot unpack
    [dir |-> dir,
     last |-> Result("generate_xsd", file, p, write_ok, FALSE, "raise", "TypeError",
                     <<>>, FALSE, "no", FALSE)]
  ELSE
    LET checksum == get_xml_checksum(file, p.optional, p.nullable)
        existed == checksum \in DOMAIN dir
    IN
    IF existed THEN
      [dir |-> dir,
       last |-> Result("generate_xsd", file, p, write_ok, existed, "schema", "",
                       [declaration |-> FALSE, schema |-> dir[checksum].schema],
                       FALSE, "no", FALSE)]
    ELSE
      LET r == process_element(file, <<>>, TRUE, p.optional)
          xsd_str == [declaration |-> TRUE, schema |-> r.element_def]
      IN
      IF ~write_ok THEN
        [dir |-> dir,
         last |-> Result("generate_xsd", file, p, write_ok, existed, "raise", "OSError",
                         xsd_str, TRUE, "no", FALSE)]
      ELSE
        [dir |-> WriteFile(dir, checksum, xsd_str),
         last |-> Result("generate_xsd", file, p, write_ok, existed, "schema", "",
                         xsd_str, TRUE, "no", TRUE)]

\* the parameters of get_json_checksum and the arguments that
\* json_schema_generator passes to it
get_json_checksum_parameters == <<"data", "optional_fields", "allow_null_fields">>
json_schema_generator_arguments == <<"json_data", "optional_fields">>

\* json_schema_generator(json_path, json_schema_path, config_file)
json_schema_generator(file, p, write_ok, dir) ==
  LET existed ==
        json_load_raises(file) = ""
        /\ get_json_checksum(file, p.optional, p.nullable) \in DOMAIN dir
  IN
  IF json_load_raises(file) = "JSONDecodeError" THEN
    [dir |-> dir,
     last |-> Result("json_schema_generator", file, p, write_ok, FALSE, "False", "",
                     <<>>, FALSE, "no", FALSE)]
  ELSE IF json_load_raises(file) # "" THEN
    [dir |-> dir,
     last |-> Result("json_schema_generator", file, p, write_ok, FALSE, "raise",
                     json_load_raises(file), <<>>, FALSE, "no", FALSE)]
  ELSE IF Len(json_schema_generator_arguments) # Len(get_json_checksum_parameters) THEN
    \* the call of get_json_checksum raises TypeError
    [dir |-> dir,
     last |-> Result("json_schema_generator", file, p, write_ok, existed, "raise",
                     "TypeError", <<>>, FALSE, "no", FALSE)]
  ELSE
    LET checksum_id == get_json_checksum(file, p.optional, p.nullable)
    IN
    IF checksum_id \in DOMAIN dir THEN
      [dir |-> dir,
       last |-> Result("json_schema_generator", file, p, write_ok, existed, "schema", "",
                       dir[checksum_id], FALSE, "no", FALSE)]
    ELSE
      LET schema_data ==
            [json_to_schema(file, p.optional, p.nullable, {})
               EXCEPT !.checksum_id = checksum_id]
      IN
      IF ~write_ok THEN
        [dir |-> dir,
         last |-> Result("json_schema_generator", file, p, write_ok, existed, "False", "",
                         schema_data, TRUE, "no", FALSE)]
      ELSE
        [dir |-> WriteFile(dir, checksum_id, schema_data),
         last |-> Result("json_schema_generator", file, p, write_ok, existed, "schema", "",
                         schema_data, TRUE, "no", TRUE)]

(* ----------------------- sample documents and policies ----------------- *)

\* largest number of changes made to the sample document or to its policy
MaxEdits == 2

\* the paths a configuration entry can list
PolicyPaths == { <<"a">>, <<"a", ".", "b">> }

\* the policies of the configuration: optional_fields and allow_null_fields
Policies ==
  { p \in [optional : SUBSET PolicyPaths, nullable : SUBSET PolicyPaths] :
      Cardinality(p.optional) + Cardinality(p.nullable) <= MaxPolicy }

SwapKids(kids, i) ==
  [j \in 1..Len(kids) |->
     IF j = i THEN kids[i + 1] ELSE IF j = i + 1 THEN kids[i] ELSE kids[j]]

\* the values obtained from n by one change of the given kind made at n
LocalEdits(n, kind) ==
  CASE kind = "reorder" ->
         IF n.kind = "dict"
           THEN { [n EXCEPT !.kids = SwapKids(n.kids, i)] : i \in 1..(Len(n.kids) - 1) }
           ELSE {}
    [] kind = "value" ->
         IF IsScalar(n)
           THEN { s \in AllScalars : s.kind = n.kind /\ s.val # n.val }
           ELSE {}
    [] kind = "type" ->
         IF IsScalar(n) THEN { s \in AllScalars : s.kind # n.kind } ELSE {}
    [] kind = "repeat" ->
         IF n.kind = "list"
           THEN { [n EXCEPT !.kids =
                     SubSeq(n.kids, 1, i) \o <<n.kids[i]>> \o SubSeq(n.kids, i + 1, Len(n.kids))]
                  : i \in 1..Len(n.kids) }
           ELSE {}
    [] OTHER -> {}

\* the values obtained from n by one change of the given kind made anywhere
\* in n: "reorder" swaps two neighbouring keys of an object, "value" replaces
\* a scalar by another of the same JSON type, "type" by one of another type,
\* "repeat" repeats an item of an array
RECURSIVE EditsOf(_, _)
EditsOf(n, kind) ==
  LocalEdits(n, kind)
  \cup UNION { { [n EXCEPT !.kids[i].node = m] : m \in EditsOf(n.kids[i].node, kind) }
               : i \in 1..Len(n.kids) }

RECURSIVE Scalars(_)
\* the scalars of a JSON value
Scalars(n) ==
  IF IsScalar(n) THEN {n}
  ELSE UNION { Scalars(n.kids[i].node) : i \in 1..Len(n.kids) }

RECURSIVE XmlSize(_)
RECURSIVE XmlSizeKids(_, _)
XmlSizeKids(kids, i) ==
  IF i > Len(kids) THEN 0 ELSE XmlSize(kids[i]) + XmlSizeKids(kids, i + 1)
\* the number of elements and attributes of an XML element
XmlSize(e) == 1 + Len(e.attrib) + XmlSizeKids(e.kids, 1)

RECURSIVE JsonKeys(_)
\* the keys of the objects of a JSON value
JsonKeys(n) ==
  UNION { (IF n.kind = "dict" THEN { n.kids[i].key } ELSE {})
          \cup JsonKeys(n.kids[i].node) : i \in 1..Len(n.kids) }

\* the keys and the child tags of the files
FileKeys == { <<"a">> }
FileTags == { <<"a">> }

\* the parseable JSON files: small documents with numbers and strings
JsonFiles ==
  LET small == { d \in Docs : Size(d) <= MaxCacheNodes /\ JsonKeys(d) \subseteq FileKeys }
  IN  { d \in small \cup UNION { EditsOf(e, "type") : e \in small } :
          \A x \in Scalars(d) : x.kind \in {"num", "str"} }

\* the parseable XML files: small documents whose root has no text
XmlFiles ==
  { d \in XmlDocs :
      /\ XmlSize(d) <= MaxCacheNodes
      /\ d.text = <<>>
      /\ \A i \in 1..Len(d.kids) : d.kids[i].tag \in FileTags }

\* the JSON files that json.load does not return a document for
BadJsonFiles == { UnparseableJson, UndecodableJson }

\* the configuration entries of the JSON files and of the XML files
JsonFilePolicies ==
  { p \in Policies : p.optional \cup p.nullable \subseteq { <<"a">> } }

XmlFilePolicies ==
  { p \in XmlPolicies : p.optional \cup p.nullable \subseteq { <<"r", ".", "a">> } }

(* ------------------------------ state ---------------------------------- *)

VARIABLES
  doc0,      \* the first sample document
  doc,       \* the second sample document, obtained from doc0 by the edits
  policy0,   \* the policy the first fingerprint and schema are computed under
  policy,    \* the policy the second ones are computed under
  edits,     \* the kinds of the changes made so far, in order
  nedits,    \* their number
  fp0, fp,   \* get_json_checksum of (doc0, policy0) and of (doc, policy)
  sch0, sch, \* json_to_schema of (doc0, policy0) and of (doc, policy)
  program,   \* the program that runs: "main.py", "xml_schema_generator.py",
             \* "xml_to_xsd" (XSDGenerator), "json_to_schema"
             \* (json_schema_generator), or "none"
  schema_dir, \* its schema directory: the stored content by file name
  last,      \* the result of the last call
  tick,      \* flips at every call
  callers,   \* the calls in progress of the concurrent callers
  writes,    \* how many times each schema file has been written
  batch      \* the run of a batch driver: its configuration, its files, the
             \* results of the files processed so far

vars ==
  <<doc0, doc, policy0, policy, edits, nedits, fp0, fp, sch0, sch,
    program, schema_dir, last, tick, callers, writes, batch>>

sampleVars == <<doc0, doc, policy0, policy, edits, nedits, fp0, fp, sch0, sch>>
fileVars == <<program, schema_dir, last, tick, callers, writes, batch>>

\* no program runs
NoProgram ==
  /\ program = "none"
  /\ schema_dir = <<>>
  /\ last = NoCall
  /\ tick = 0
  /\ callers = <<>>
  /\ writes = <<>>
  /\ batch = <<>>

\* no sample document is studied
NoSample ==
  /\ doc0 = <<>>
  /\ doc = <<>>
  /\ edits = <<>>
  /\ nedits = 0
  /\ fp0 = <<>>
  /\ fp = <<>>
  /\ sch0 = <<>>
  /\ sch = <<>>

(* ----- fingerprint and schema of a JSON document and of its variants ---- *)

InitJson ==
  /\ doc0 \in Docs
  /\ doc = doc0
  /\ policy0 \in Policies
  /\ policy = policy0
  /\ edits = <<>>
  /\ nedits = 0
  /\ fp0 = get_json_checksum(doc0, policy0.optional, policy0.nullable)
  /\ fp = fp0
  /\ sch0 = json_to_schema(doc0, policy0.optional, policy0.nullable, {})
  /\ sch = sch0
  /\ NoProgram

\* the second document becomes d and the second policy p; fingerprint and
\* schema are computed again
Recompute(d, p, kind) ==
  /\ nedits < MaxEdits
  /\ doc' = d
  /\ policy' = p
  /\ edits' = Append(edits, kind)
  /\ nedits' = nedits + 1
  /\ fp' = get_json_checksum(d, p.optional, p.nullable)
  /\ sch' = json_to_schema(d, p.optional, p.nullable, {})
  /\ UNCHANGED <<doc0, policy0, fp0, sch0>>
  /\ UNCHANGED fileVars

ReorderKeys == \E d \in EditsOf(doc, "reorder") : Recompute(d, policy, "reorder")

ChangeValue == \E d \in EditsOf(doc, "value") : Recompute(d, policy, "value")

ChangeType == \E d \in EditsOf(doc, "type") : Recompute(d, policy, "type")

RepeatItem == \E d \in EditsOf(doc, "repeat") : Recompute(d, policy, "repeat")

Toggle(S, p) == IF p \in S THEN S \ {p} ELSE S \cup {p}

ToggleOptional ==
  \E p \in PolicyPaths :
    Recompute(doc, [policy EXCEPT !.optional = Toggle(@, p)], "policy")

ToggleNullable ==
  \E p \in PolicyPaths :
    Recompute(doc, [policy EXCEPT !.nullable = Toggle(@, p)], "policy")

NextJson ==
  \/ ReorderKeys
  \/ ChangeValue
  \/ ChangeType
  \/ RepeatItem
  \/ ToggleOptional
  \/ ToggleNullable

SpecJson == InitJson /\ [][NextJson]_vars

(* ------------- fingerprint of an XML document under two policies ------- *)

InitXml ==
  /\ doc0 \in XmlDocs
  /\ doc = doc0
  /\ policy0 \in XmlPolicies
  /\ policy = policy0
  /\ edits = <<>>
  /\ nedits = 0
  /\ fp0 = get_xml_checksum(doc0, policy0.optional, policy0.nullable)
  /\ fp = fp0
  /\ sch0 = <<>>
  /\ sch = <<>>
  /\ NoProgram

\* the second policy becomes p; the fingerprint is computed again
RecomputeXml(p) ==
  /\ nedits < MaxEdits
  /\ policy' = p
  /\ edits' = Append(edits, "policy")
  /\ nedits' = nedits + 1
  /\ fp' = get_xml_checksum(doc, p.optional, p.nullable)
  /\ UNCHANGED <<doc0, doc, policy0, fp0, sch0, sch>>
  /\ UNCHANGED fileVars

ToggleXmlOptional ==
  \E p \in XmlPolicyPaths : RecomputeXml([policy EXCEPT !.optional = Toggle(@, p)])

ToggleXmlNullable ==
  \E p \in XmlPolicyPaths : RecomputeXml([policy EXCEPT !.nullable = Toggle(@, p)])

NextXml == ToggleXmlOptional \/ ToggleXmlNullable

SpecXml == InitXml /\ [][NextXml]_vars

(* ------------------- the file operations, one call at a time ----------- *)

Programs == { "main.py", "xml_schema_generator.py", "xml_to_xsd", "json_to_schema" }

Init ==
  /\ NoSample
  /\ policy0 = <<>>
  /\ policy = <<>>
  /\ program \in Programs
  /\ schema_dir = <<>>
  /\ last = NoCall
  /\ tick = 0
  /\ callers = <<>>
  /\ writes = <<>>
  /\ batch = <<>>

\* the call completed without an error
Succeeded(r) == r.returned \in {"True", "schema"}

Called(r) ==
  /\ schema_dir' = r.dir
  /\ last' = [r.last EXCEPT !.repeated =
                /\ Succeeded(last)
                /\ last.op = r.last.op
                /\ last.file = r.last.file
                /\ last.policy = r.last.policy]
  /\ tick' = 1 - tick
  /\ UNCHANGED <<callers, writes, program, batch>>
  /\ UNCHANGED sampleVars

ProcessJsonFile ==
  /\ program = "main.py"
  /\ \E file \in JsonFiles \cup BadJsonFiles, p \in JsonFilePolicies,
        write_ok \in BOOLEAN :
       Called(process_json_file(file, p, write_ok, schema_dir))

ProcessXmlFile ==
  /\ program = "xml_schema_generator.py"
  /\ \E file \in XmlFiles \cup {UnparseableXml}, p \in XmlFilePolicies,
        write_ok \in BOOLEAN, valid \in BOOLEAN :
       \E xml_schema \in (IF file = UnparseableXml THEN { <<>> }
                          ELSE enhanced_xml_to_xsd(file, p.optional)) :
         Called(process_xml_file(file, p, write_ok, valid, xml_schema, schema_dir))

GenerateXsd ==
  /\ program = "xml_to_xsd"
  /\ \E file \in XmlFiles \cup {UnparseableXml}, p \in XmlFilePolicies,
        write_ok \in BOOLEAN :
       Called(generate_xsd(file, p, write_ok, schema_dir))

JsonSchemaGenerator ==
  /\ program = "json_to_schema"
  /\ \E file \in JsonFiles \cup BadJsonFiles, p \in JsonFilePolicies,
        write_ok \in BOOLEAN :
       Called(json_schema_generator(file, p, write_ok, schema_dir))

Next ==
  \/ ProcessJsonFile
  \/ ProcessXmlFile
  \/ GenerateXsd
  \/ JsonSchemaGenerator

Spec == Init /\ [][Next]_vars

(* ---------------- the file operations, two callers at once ------------- *)

\* the callers; nothing in main.py or XSDGenerator holds a lock, so that the
\* steps of two calls on the same schema directory interleave freely
Callers == { "c1", "c2" }

Idle == [pc |-> "idle", file |-> <<>>, checksum |-> <<>>, schema |-> <<>>]

\* the programs whose lookup-or-generate operation is run by the two callers,
\* every file having the configuration entry `policy`
InitConc ==
  /\ NoSample
  /\ program \in { "main.py", "xml_to_xsd" }
  /\ policy0 \in (IF program = "main.py" THEN JsonFilePolicies ELSE XmlFilePolicies)
  /\ policy = policy0
  /\ schema_dir = <<>>
  /\ last = NoCall
  /\ tick = 0
  /\ callers = [c \in Callers |-> Idle]
  /\ writes = <<>>
  /\ batch = <<>>

\* the call reads its file and computes the fingerprint
\* (main.py to its line of get_json_checksum, generate_xsd to get_xml_checksum)
Begin(c) ==
  /\ callers[c].pc = "idle"
  /\ \E file \in (IF program = "main.py" THEN JsonFiles ELSE XmlFiles) :
       callers' = [callers EXCEPT ![c] =
                     [pc |-> "lookup", file |-> file,
                      checksum |-> IF program = "main.py"
                                     THEN main_get_json_checksum(file, policy.optional)
                                     ELSE get_xml_checksum(file, policy.optional, policy.nullable),
                      schema |-> <<>>]]
  /\ UNCHANGED <<program, schema_dir, last, tick, writes, batch>>
  /\ UNCHANGED sampleVars

\* the call opens the schema file: it uses the stored schema and returns, or
\* the open fails and the call enters its except branch
LookupEntry(c) ==
  /\ callers[c].pc = "lookup"
  /\ callers' = [callers EXCEPT ![c] =
                   IF callers[c].checksum \in DOMAIN schema_dir
                     THEN Idle
                     ELSE [@ EXCEPT !.pc = "generate"]]
  /\ UNCHANGED <<program, schema_dir, last, tick, writes, batch>>
  /\ UNCHANGED sampleVars

\* the call generates the schema in memory
GenerateSchema(c) ==
  /\ callers[c].pc = "generate"
  /\ callers' = [callers EXCEPT ![c] =
                   [@ EXCEPT !.pc = "write",
                             !.schema =
                                IF program = "main.py"
                                  THEN [json_to_schema(callers[c].file, policy.optional,
                                                       policy.nullable, {})
                                          EXCEPT !.checksum_id = callers[c].checksum]
                                  ELSE [declaration |-> TRUE,
                                        schema |-> process_element(callers[c].file, <<>>, TRUE,
                                                                   policy.optional).element_def]]]
  /\ UNCHANGED <<program, schema_dir, last, tick, writes, batch>>
  /\ UNCHANGED sampleVars

\* the call writes the schema file, or fails to, and returns
WriteEntry(c) ==
  /\ callers[c].pc = "write"
  /\ \E write_ok \in BOOLEAN :
       IF write_ok THEN
         /\ schema_dir' = WriteFile(schema_dir, callers[c].checksum, callers[c].schema)
         /\ writes' = WriteFile(writes, callers[c].checksum,
                                IF callers[c].checksum \in DOMAIN writes
                                  THEN writes[callers[c].checksum] + 1 ELSE 1)
       ELSE UNCHANGED <<schema_dir, writes>>
  /\ callers' = [callers EXCEPT ![c] = Idle]
  /\ UNCHANGED <<program, last, tick, batch>>
  /\ UNCHANGED sampleVars

NextConc ==
  \E c \in Callers :
    \/ Begin(c)
    \/ LookupEntry(c)
    \/ GenerateSchema(c)
    \/ WriteEntry(c)

SpecConc == InitConc /\ [][NextConc]_vars

(* ------------------------------ claims --------------------------------- *)

Range(s) == { s[i] : i \in 1..Len(s) }

\* the two policies classify some path of `paths` differently with respect
\* to optional or nullable
ClassifiedDifferently(paths, p, q) ==
  \E x \in paths :
     \/ (x \in p.optional) # (x \in q.optional)
     \/ (x \in p.nullable) # (x \in q.nullable)

\* the dotted paths of the keys of a JSON document
JsonPaths(d) == Range(extract_keys_from_json(d, {}, {}))

\* C1: of two successive calls of generate_xsd on the same XML document with
\* the same configuration, the first one completing successfully, the second
\* one does not run process_element: it finds the entry stored under the same
\* fingerprint and returns the schema stored there, which is the schema the
\* first call returned
C1_SecondCallReturnsStored ==
  [][(/\ last.op = "generate_xsd"
      /\ last.returned = "schema"
      /\ last'.op = "generate_xsd"
      /\ last'.file = last.file
      /\ last'.policy = last.policy)
     => (/\ ~last'.generated
         /\ ~last'.wrote
         /\ last'.existed
         /\ last'.returned = "schema"
         /\ last'.schema.schema = last.schema.schema
         /\ last'.schema.schema =
              schema_dir[get_xml_checksum(last.file, last.policy.optional,
                                          last.policy.nullable)].schema)]_vars

C1_Witness ==
  /\ last.op = "generate_xsd"
  /\ last.repeated
  /\ last.file.kids # <<>>
  /\ last.policy.optional # {}
  /\ last.existed
  /\ ~last.generated
  /\ last.returned = "schema"

\* C2: no call of process_xml_file or process_json_file changes or removes
\* the content stored under a fingerprint that has an entry
C2_AppendOnly ==
  [][(program \in { "main.py", "xml_schema_generator.py" } =>
        (\A f \in DOMAIN schema_dir :
           f \in DOMAIN schema_dir' /\ schema_dir'[f] = schema_dir[f]))]_vars

\* C3: of callers that run the lookup-or-generate operation at the same time
\* for documents of the same fingerprint, at most one writes the entry: no
\* schema file is written twice
C3_AtMostOneWriter == \A f \in DOMAIN writes : writes[f] <= 1

\* C4: two JSON documents that have the same keys and nesting and differ only
\* in scalar values and in the order of the keys of their objects have the
\* same fingerprint under the same optional and nullable sets
C4_KeyOrderAndValuesIgnored ==
  (policy = policy0 /\ Range(edits) \subseteq {"reorder", "value", "type"}) => fp = fp0

C4_Witness ==
  /\ policy = policy0
  /\ policy.optional # {}
  /\ edits = <<"reorder", "value">>
  /\ doc # doc0
  /\ fp = fp0

\* C5: for one JSON document, two policies that classify a path of the
\* document differently (optional or nullable) give different fingerprints
C5_PolicySensitive ==
  (doc = doc0 /\ ClassifiedDifferently(JsonPaths(doc), policy0, policy)) => fp # fp0

\* C6: for one XML document, two policies that classify an element or
\* attribute path of the document differently (optional or nullable) give
\* different fingerprints
C6_XmlPolicySensitive ==
  ClassifiedDifferently(Range(extract_elements_from_xml(doc)), policy0, policy)
    => fp # fp0

\* C7: repeating an item of an array leaves the fingerprint of the JSON
\* document unchanged
C7_ArrayLengthIgnored ==
  (policy = policy0 /\ Range(edits) = {"repeat"}) => fp = fp0

\* C8 as stated: two JSON documents that differ in scalar values only have
\* the same fingerprint and the same generated schema
C8_SameSchemaForAnyValues ==
  (policy = policy0 /\ edits # <<>> /\ Range(edits) \subseteq {"value", "type"})
    => (fp = fp0 /\ sch = sch0)

\* C8: two JSON documents that differ only in the value of a scalar, the
\* scalar keeping its JSON type (string, boolean, number), have the same
\* fingerprint and the same generated schema under the same policy; so have,
\* step by step, documents that differ in several such values
C8_SameSchemaForSameTypes ==
  [][(policy' = policy /\ doc' \in EditsOf(doc, "value"))
     => (fp' = fp /\ sch' = sch)]_vars

C8_Witness ==
  /\ policy = policy0
  /\ policy.nullable # {}
  /\ edits = <<"type", "value">>
  /\ Scalars(doc) = { Scalar("bool", "false") }
  /\ sch # sch0
  /\ fp = fp0

\* C9: json_schema_generator called on a parseable JSON object file, no entry
\* being stored under its fingerprint and the write succeeding, runs the type
\* inference, writes the entry and returns the generated schema
C9_MissGeneratesAndReturns ==
  (/\ last.op = "json_schema_generator"
   /\ last.file # UnparseableJson
   /\ last.file.kind = "dict"
   /\ ~last.existed
   /\ last.write_ok)
  => (/\ last.returned = "schema"
      /\ last.generated
      /\ last.wrote)

\* C10: a call that generated a schema and failed to write it still uses it:
\* process_json_file validates the document against it, generate_xsd returns
\* it
C10_WriteErrorStillUsesSchema ==
  (last.generated /\ ~last.write_ok) =>
     /\ last.op = "process_json_file" => last.validated = "new"
     /\ last.op = "generate_xsd" => last.returned = "schema"

\* C11: a call of process_json_file or process_xml_file on a file that cannot
\* be parsed fails (it returns False or raises) without generating a schema,
\* and leaves the schema directory as it was
C11_UnparseableLeavesStore ==
  [][(/\ tick' # tick
      /\ last'.op \in { "process_json_file", "process_xml_file" }
      /\ last'.file \in BadJsonFiles \cup { UnparseableXml })
     => (/\ schema_dir' = schema_dir
         /\ ~last'.generated
         /\ ~last'.wrote
         /\ last'.schema = <<>>
         /\ last'.validated = "no"
         /\ last'.returned \in { "False", "raise" })]_vars

C11_Witness ==
  /\ last.op = "process_json_file"
  /\ last.file = UnparseableJson
  /\ last.returned = "False"
  /\ schema_dir # <<>>

(* -------------------------- the batch drivers -------------------------- *)

\* the largest number of files of a batch, of entries of a configuration
MaxBatch == 2
MaxConfigs == 2

\* the names of the files of a batch, in the order os.listdir gives them
BatchNames == << "f1", "f2", "f3", "f4" >>

\* the result of looking up a file that has no configuration entry: {}
NoConfig == [file |-> "", optional |-> {}, nullable |-> {}]

\* get_file_config(filename, configs): the first entry for the file name
RECURSIVE get_file_config(_, _)
get_file_config(filename, configs) ==
  IF configs = <<>> THEN NoConfig
  ELSE IF Head(configs).file = filename THEN Head(configs)
  ELSE get_file_config(filename, Tail(configs))

\* XSDGenerator.get_optional_fields_for_file(xml_file_name) with self.config
RECURSIVE get_optional_fields_for_file(_, _)
get_optional_fields_for_file(config, xml_file_name) ==
  IF config = <<>> THEN {}
  ELSE IF Head(config).file = xml_file_name THEN Head(config).optional
  ELSE get_optional_fields_for_file(Tail(config), xml_file_name)

\* XSDGenerator.get_allow_null_fields_for_file(xml_file_name) with self.config
RECURSIVE get_allow_null_fields_for_file(_, _)
get_allow_null_fields_for_file(config, xml_file_name) ==
  IF config = <<>> THEN {}
  ELSE IF Head(config).file = xml_file_name THEN Head(config).nullable
  ELSE get_allow_null_fields_for_file(Tail(config), xml_file_name)

\* file_config.get("optional_fields", []) and
\* file_config.get("allow_null_fields", [])
PolicyOf(file_config) ==
  [optional |-> file_config.optional, nullable |-> file_config.nullable]

SeqsUpTo(S, n) == UNION { [1..m -> S] : m \in 0..n }

\* the configuration files: lists of entries for the first files of the batch
ConfigEntries(paths) ==
  [file : { BatchNames[i] : i \in 1..MaxBatch }, optional : SUBSET paths, nullable : { {} }]

Drivers == { "main.py", "xml_schema_generator.py" }

\* the programs that process one file after the other under one
\* configuration: the batch drivers, and a script that calls
\* XSDGenerator(config_path).generate_xsd for each of its files
BatchPrograms == Drivers \cup { "xml_to_xsd" }

\* main() of main.py and of xml_schema_generator.py after load_config and
\* os.listdir; XSDGenerator after __init__
InitBatch ==
  /\ NoSample
  /\ policy0 = <<>>
  /\ policy = <<>>
  /\ program \in BatchPrograms
  /\ schema_dir = <<>>
  /\ last = NoCall
  /\ tick = 0
  /\ callers = <<>>
  /\ writes = <<>>
  /\ \E configs \in SeqsUpTo(ConfigEntries(IF program = "main.py"
                                             THEN { <<"a">> }
                                             ELSE { <<"r", ".", "a">> }), MaxConfigs),
        files \in SeqsUpTo(IF program = "main.py"
                             THEN JsonFiles \cup BadJsonFiles
                             ELSE XmlFiles \cup { UnparseableXml }, MaxBatch) :
       batch = [configs |-> configs, files |-> files, results |-> <<>>,
                ended |-> FALSE, raised |-> ""]

\* the body of the loop `for filename in ...` for the next file: the call
\* returns and the loop goes on, or it raises and the exception leaves main
BatchStep(r) ==
  /\ schema_dir' = r.dir
  /\ last' = r.last
  /\ tick' = 1 - tick
  /\ batch' =
       IF r.last.returned = "raise"
         THEN [batch EXCEPT !.ended = TRUE, !.raised = r.last.error]
         ELSE [batch EXCEPT !.results =
                 Append(@, [returned |-> r.last.returned, policy |-> r.last.policy])]
  /\ UNCHANGED <<callers, writes, program>>
  /\ UNCHANGED sampleVars

ProcessNextFile ==
  /\ ~batch.ended
  /\ Len(batch.results) < Len(batch.files)
  /\ LET i == Len(batch.results) + 1
         file == batch.files[i]
         p == PolicyOf(get_file_config(BatchNames[i], batch.configs))
     IN  \E write_ok \in BOOLEAN, valid \in BOOLEAN :
           IF program = "main.py"
             THEN BatchStep(process_json_file(file, p, write_ok, schema_dir))
           ELSE IF program = "xml_to_xsd"
             THEN BatchStep(generate_xsd(
                    file,
                    [optional |-> get_optional_fields_for_file(batch.configs, BatchNames[i]),
                     nullable |-> get_allow_null_fields_for_file(batch.configs, BatchNames[i])],
                    write_ok, schema_dir))
             ELSE \E xml_schema \in (IF file = UnparseableXml THEN { <<>> }
                                     ELSE enhanced_xml_to_xsd(file, p.optional)) :
                    BatchStep(process_xml_file(file, p, write_ok, valid, xml_schema,
                                               schema_dir))

\* the loop is over (or there was no file) and main returns
FinishBatch ==
  /\ ~batch.ended
  /\ Len(batch.results) = Len(batch.files)
  /\ batch' = [batch EXCEPT !.ended = TRUE]
  /\ UNCHANGED <<program, schema_dir, last, tick, callers, writes>>
  /\ UNCHANGED sampleVars

NextBatch == ProcessNextFile \/ FinishBatch

SpecBatch == InitBatch /\ [][NextBatch]_vars

\* the file cannot be parsed
FailsToParse(file) == file \in BadJsonFiles \cup { UnparseableXml }

\* C12: when a batch driver has ended, every file of the batch has been
\* processed, also when some file of the batch fails to parse
C12_BatchSurvivesParseFailure ==
  (/\ program \in Drivers
   /\ batch.ended
   /\ \E i \in 1..Len(batch.files) : FailsToParse(batch.files[i]))
  => Len(batch.results) = Len(batch.files)

\* the number of entries of the configuration for the file name
Matching(configs, filename) ==
  Cardinality({ i \in 1..Len(configs) : configs[i].file = filename })

\* C13: a file name that more than one configuration entry matches makes the
\* policy lookup fail with a configuration error: no file with such a name
\* is processed under one of the entries
C13_AmbiguousConfigIsAnError ==
  program \in BatchPrograms =>
    \A i \in 1..Len(batch.results) :
       Matching(batch.configs, BatchNames[i]) > 1
         => batch.results[i].returned = "ConfigurationError"

\* ---------------------------------------------------------------------
\* json_to_schema and get_json_checksum on documents with empty strings,
\* nulls, nested objects and arrays of objects, under a policy that has an
\* excluded set

MaxItems == 2

\* the scalars of these documents: a number, the empty string, null
InferScalars == { Scalar("num", "1"), Scalar("str", ""), Scalar("null", "null") }

\* the keys of an object, in the order the document has them
InferKeySeqs ==
  { <<>>, << <<"a">> >>, << <<"b">> >>, << <<"a">>, <<"b">> >>, << <<"b">>, <<"a">> >> }

\* the objects whose values are scalars
InferObjects ==
  UNION { { Dict([i \in 1..Len(ks) |-> Entry(ks[i], f[i])])
            : f \in [1..Len(ks) -> InferScalars] }
          : ks \in InferKeySeqs }

InferItems == InferScalars \cup InferObjects

\* scalars, objects of scalars, and arrays of at most MaxItems of them
InferValues ==
  InferItems
  \cup { List([i \in 1..Len(s) |-> Item(s[i])]) : s \in SeqsUpTo(InferItems, MaxItems) }

\* the documents: {"a": value}, and the objects of two scalars
InferDocs ==
  { Dict(<< Entry(<<"a">>, v) >>) : v \in InferValues }
  \cup { o \in InferObjects : Len(o.kids) = 2 }

InferPolicyPaths == { <<"a">>, <<"a", ".", "b">> }

\* optional_fields, allow_null_fields and exclude_fields of a configuration
\* entry
InferPolicies ==
  { p \in [optional : SUBSET InferPolicyPaths, nullable : SUBSET InferPolicyPaths,
           excluded : SUBSET InferPolicyPaths] :
      Cardinality(p.optional) + Cardinality(p.nullable) + Cardinality(p.excluded)
        <= MaxPolicy }

\* the values put in the place of an excluded field
Replacements ==
  { Scalar("null", "null"), Dict(<<>>), Dict(<< Entry(<<"b">>, Scalar("num", "1")) >>) }

RECURSIVE ReplaceAt(_, _, _, _)
\* the value n, found at `path`, with r in the place of every field whose
\* dotted path is `target` (the items of an array have the path of the array)
ReplaceAt(n, path, target, r) ==
  IF n.kind = "dict" THEN
    [n EXCEPT !.kids =
       [i \in 1..Len(n.kids) |->
          IF JoinPath(path, n.kids[i].key) = target
            THEN Entry(n.kids[i].key, r)
            ELSE Entry(n.kids[i].key,
                       ReplaceAt(n.kids[i].node, JoinPath(path, n.kids[i].key), target, r))]]
  ELSE IF n.kind = "list" THEN
    [n EXCEPT !.kids =
       [i \in 1..Len(n.kids) |-> Item(ReplaceAt(n.kids[i].node, path, target, r))]]
  ELSE n

InitInfer ==
  /\ doc0 \in InferDocs
  /\ doc = doc0
  /\ policy0 \in InferPolicies
  /\ policy = policy0
  /\ edits = <<>>
  /\ nedits = 0
  /\ fp0 = <<>>
  /\ fp = <<>>
  /\ sch0 = <<>>
  /\ sch = <<>>
  /\ NoProgram

\* get_json_checksum and json_to_schema called on the document
Generate ==
  /\ edits = <<>>
  /\ edits' = <<"generate">>
  /\ fp' = get_json_checksum(doc, policy.optional, policy.nullable)
  /\ fp0' = fp'
  /\ sch' = json_to_schema(doc, policy.optional, policy.nullable, policy.excluded)
  /\ sch0' = sch'
  /\ UNCHANGED <<doc0, doc, policy0, policy, nedits>>
  /\ UNCHANGED fileVars

\* a second document that differs from the first one inside an excluded
\* field only, fingerprinted and given to json_to_schema as the first one was
ReplaceExcluded ==
  /\ edits = <<"generate">>
  /\ \E target \in policy.excluded, r \in Replacements :
        /\ doc' = ReplaceAt(doc, <<>>, target, r)
        /\ doc' # doc
  /\ edits' = <<"generate", "excluded">>
  /\ nedits' = nedits + 1
  /\ fp' = get_json_checksum(doc', policy.optional, policy.nullable)
  /\ sch' = json_to_schema(doc', policy.optional, policy.nullable, policy.excluded)
  /\ UNCHANGED <<doc0, policy0, policy, fp0, sch0>>
  /\ UNCHANGED fileVars

RECURSIVE schema_generator_infer_type(_, _, _, _, _, _)
RECURSIVE schema_generator_inferProps(_, _, _, _, _, _, _, _)

\* the loop `for k, v in value.items()` of schema_generator.py from its i-th
\* entry on
schema_generator_inferProps(value, i, current_path, props, reqs, O, N, E) ==
  IF i > Len(value.kids) THEN [props |-> props, reqs |-> reqs]
  ELSE
    LET k == value.kids[i].key
        inferred == schema_generator_infer_type(k, value.kids[i].node, current_path, O, N, E)
        full_key == JoinPath(current_path, k)
    IN  IF inferred # NoneSchema
          THEN schema_generator_inferProps(value, i + 1, current_path,
                          Append(props, [key |-> k, schema |-> inferred]),
                          IF full_key \notin O THEN Append(reqs, k) ELSE reqs,
                          O, N, E)
          ELSE schema_generator_inferProps(value, i + 1, current_path, props, reqs, O, N, E)

\* infer_type(key, value, path) of schema_generator.py: the `items` of an
\* array are inferred from value[0]
schema_generator_infer_type(key, value, path, O, N, E) ==
  LET current_path == CurrentPath(path, key)
      wrap(base_type) ==
        IF current_path \in N /\ base_type.type # "null"
          THEN AnyOf(<<base_type, Fragment("null")>>)
          ELSE base_type
  IN
  IF current_path \in E THEN NoneSchema
  ELSE IF value.kind = "list" THEN
    wrap([Fragment("array") EXCEPT
            !.items = IF value.kids # <<>>
                        THEN << schema_generator_infer_type(<<>>, value.kids[1].node,
                                                            current_path, O, N, E) >>
                        ELSE <<>>])
  ELSE IF value.kind = "dict" THEN
    LET r == schema_generator_inferProps(value, 1, current_path, <<>>, <<>>, O, N, E)
    IN  [Fragment("object") EXCEPT !.properties = r.props, !.required = r.reqs]
  ELSE wrap(Fragment(scalar_type(value)))

\* json_to_schema(json_str, optional_fields, allow_null_fields,
\* exclude_fields) of schema_generator.py, for the text of the document
\* json_data: its top-level loop is the loop over the entries of an object
\* at the empty path
schema_generator_json_to_schema(json_data, optional_fields, allow_null_fields, exclude_fields) ==
  LET r == schema_generator_inferProps(json_data, 1, <<>>, <<>>, <<>>, optional_fields,
                                       allow_null_fields, exclude_fields)
  IN  [dollar_schema |-> "http://json-schema.org/draft-07/schema#",
       type |-> "object",
       properties |-> r.props,
       required |-> r.reqs,
       checksum_id |-> <<>>]

\* json_to_schema of schema_generator.py called on the document; its schema
\* is kept in sch0
GenerateWithSchemaGenerator ==
  /\ edits = <<>>
  /\ edits' = <<"schema_generator">>
  /\ sch0' = schema_generator_json_to_schema(doc, policy.optional, policy.nullable,
                                             policy.excluded)
  /\ UNCHANGED <<doc0, doc, policy0, policy, nedits, fp0, fp, sch>>
  /\ UNCHANGED fileVars

NextInfer == Generate \/ ReplaceExcluded \/ GenerateWithSchemaGenerator

SpecInfer == InitInfer /\ [][NextInfer]_vars

\* C14: an excluded path and every path under it contribute nothing to the
\* fingerprint: a document that differs from another one only inside an
\* excluded field has the fingerprint of the other one
C14_ExcludedSubtreeNotInFingerprint ==
  edits = <<"generate", "excluded">> => fp = fp0

\* the dotted path p is an excluded path or lies under one
Under(p, E) ==
  \E e \in E :
     \/ p = e
     \/ Len(p) > Len(e) /\ SubSeq(p, 1, Len(e) + 1) = e \o <<".">>

RECURSIVE Fragments(_, _)
\* the fragments of a schema with the dotted path of the field each of them
\* describes: f itself, the members of its anyOf and its items (same path)
\* and the fragments of its properties
Fragments(f, path) ==
  { [path |-> path, frag |-> f] }
  \cup UNION { Fragments(f.anyOf[i], path) : i \in 1..Len(f.anyOf) }
  \cup UNION { Fragments(f.items[i], path) : i \in 1..Len(f.items) }
  \cup UNION { Fragments(f.properties[i].schema, JoinPath(path, f.properties[i].key))
               : i \in 1..Len(f.properties) }

\* the schema document read as the fragment of the root object
RootFragment(schema) ==
  [type |-> schema.type, anyOf |-> <<>>, items |-> <<>>,
   properties |-> schema.properties, required |-> schema.required]

SchemaFragments(schema) == Fragments(RootFragment(schema), <<>>)

RECURSIVE NodesFrom(_, _, _)
\* the values of a document with their dotted paths (current_path) and their
\* keys (<<>> for the root and for the items of an array)
NodesFrom(n, key, path) ==
  { [path |-> path, key |-> key, node |-> n] }
  \cup UNION { NodesFrom(n.kids[i].node, n.kids[i].key,
                         IF n.kind = "dict" THEN JoinPath(path, n.kids[i].key) ELSE path)
               : i \in 1..Len(n.kids) }

Nodes(n, path) == NodesFrom(n, <<>>, path)

\* C15: a field whose dotted path is in exclude_fields is absent from
\* `properties` and from `required` of its parent at every depth, and nothing
\* of its subtree appears in the schema: no fragment of the schema describes
\* an excluded path or a path under one, and no `required` names one
C15_ExcludedAbsentFromSchema ==
  (sch # <<>> /\ "excluded" \in DOMAIN policy) =>
    \A x \in SchemaFragments(sch) :
       /\ ~Under(x.path, policy.excluded)
       /\ \A i \in 1..Len(x.frag.required) :
             ~Under(JoinPath(x.path, x.frag.required[i]), policy.excluded)

\* an array of objects whose field b is excluded: the field a of the items
\* is described, b is not
C15_Witness ==
  /\ "excluded" \in DOMAIN policy
  /\ policy.excluded = { <<"a", ".", "b">> }
  /\ \E x \in Nodes(doc, <<>>) : x.path = <<"a", ".", "b">> /\ x.node.kind = "dict"
  /\ \E x \in Nodes(doc, <<>>) : x.path = <<"a", ".", "a">>
  /\ \E x \in SchemaFragments(sch) : x.path = <<"a", ".", "a">>
  /\ edits = <<"generate", "excluded">>

\* the JSON type infer_type gives a value before any widening
BaseType(n) ==
  IF n.kind = "list" THEN "array"
  ELSE IF n.kind = "dict" THEN "object"
  ELSE scalar_type(n)

\* the fields of a document (the values that have a key) that are neither
\* excluded nor under an excluded field
Fields(d, E) ==
  { x \in Nodes(d, <<>>) : x.key # <<>> /\ ~Under(x.path, E) }

\* f is the union of a fragment of the type t and null
IsNullable(f, t) ==
  /\ Len(f.anyOf) = 2
  /\ f.anyOf[1].type = t
  /\ f.anyOf[2] = Fragment("null")

\* C16: every non-excluded field whose path is in allow_null_fields and whose
\* base type is not null (string, boolean, number, array or object) has for
\* fragment the union of its base fragment and null
C16_NullableFieldsAreUnions ==
  (sch # <<>> /\ "excluded" \in DOMAIN policy) =>
    \A x \in Fields(doc, policy.excluded) :
       (x.path \in policy.nullable /\ BaseType(x.node) # "null")
         => \E y \in SchemaFragments(sch) :
               y.path = x.path /\ IsNullable(y.frag, BaseType(x.node))

RECURSIVE KeysFrom(_, _, _, _, _)
\* the keys of the entries of an object from the i-th on, in the order of
\* the document, that are not excluded and, when O is given, not in O
KeysFrom(kids, i, path, O, E) ==
  IF i > Len(kids) THEN <<>>
  ELSE LET full_key == JoinPath(path, kids[i].key)
       IN  (IF full_key \in E \/ full_key \in O THEN <<>> ELSE <<kids[i].key>>)
           \o KeysFrom(kids, i + 1, path, O, E)

\* the names under "properties", in order
PropertyNames(f) == [i \in 1..Len(f.properties) |-> f.properties[i].key]

\* the fragment f describes the object x: its properties are the
\* non-excluded children of x and its `required` lists those of them that
\* are not optional, in the key order of the document (`required` is
\* absent when the list is empty)
Describes(f, x, O, E) ==
  /\ f.type = "object"
  /\ Range(PropertyNames(f)) = Range(KeysFrom(x.node.kids, 1, x.path, {}, E))
  /\ f.required = KeysFrom(x.node.kids, 1, x.path, O, E)

\* the objects of a document, the root included, that are not excluded
Objects(d, E) ==
  { x \in Nodes(d, <<>>) : x.node.kind = "dict" /\ ~Under(x.path, E) }

\* C17: at top level and in every nested object, `required` lists exactly
\* the non-excluded children whose dotted path is not in optional_fields, in
\* the key order of the document, and is left out when no child is required:
\* every object of the document has such a fragment and every object
\* fragment of the schema is one
C17_RequiredAreTheNonOptional ==
  (sch # <<>> /\ "excluded" \in DOMAIN policy) =>
    /\ \A x \in Objects(doc, policy.excluded) :
          \E y \in SchemaFragments(sch) :
             y.path = x.path /\ Describes(y.frag, x, policy.optional, policy.excluded)
    /\ \A y \in SchemaFragments(sch) :
          y.frag.type = "object" =>
            \E x \in Objects(doc, policy.excluded) :
               y.path = x.path /\ Describes(y.frag, x, policy.optional, policy.excluded)

\* {"a": {"b": .., "a": ..}} with a optional: the root has no `required`, the
\* fragment of a requires b and a, in this order
C17_Witness ==
  /\ edits = <<"generate">>
  /\ policy.optional = { <<"a">> }
  /\ policy.excluded = {}
  /\ doc.kids[1].node.kind = "dict"
  /\ KeysFrom(doc.kids[1].node.kids, 1, <<"a">>, {}, {}) = << <<"b">>, <<"a">> >>
  /\ sch.required = <<>>
  /\ sch.properties[1].schema.required = << <<"b">>, <<"a">> >>

RECURSIVE FirstSeen(_, _)
\* the fragments of l up to the n-th that equal none of those before them
FirstSeen(l, n) ==
  IF n = 0 THEN <<>>
  ELSE LET rest == FirstSeen(l, n - 1)
       IN  IF \E j \in 1..(n - 1) : PyEq(l[j], l[n]) THEN rest ELSE Append(rest, l[n])

\* the fragments of the items of the array x, each inferred on its own
ItemFragments(x, p) ==
  [i \in 1..Len(x.node.kids) |->
     infer_type(<<>>, x.node.kids[i].node, x.path, p.optional, p.nullable, p.excluded)]

\* the arrays of a document that are not excluded
Arrays(d, E) ==
  { x \in Nodes(d, <<>>) : x.node.kind = "list" /\ ~Under(x.path, E) }

\* C18: an empty array yields an array fragment with no `items`; when the
\* items infer to one distinct fragment it is used directly as `items`; when
\* they infer to more than one, `items` is an anyOf over the distinct
\* fragments in first-seen order
C18_ItemsAreTheDistinctFragments ==
  (sch # <<>> /\ "excluded" \in DOMAIN policy) =>
    \A x \in Arrays(doc, policy.excluded) :
       LET distinct == FirstSeen(ItemFragments(x, policy), Len(x.node.kids))
       IN  \E y \in SchemaFragments(sch) :
              /\ y.path = x.path
              /\ y.frag.type = "array"
              /\ Len(distinct) = 0 => y.frag.items = <<>>
              /\ Len(distinct) = 1 => y.frag.items = <<distinct[1]>>
              /\ Len(distinct) > 1 =>
                   /\ Len(y.frag.items) = 1
                   /\ y.frag.items[1].type = ""
                   /\ y.frag.items[1].anyOf = distinct

NumberObject ==
  [Fragment("object") EXCEPT
     !.properties = << [key |-> <<"a">>, schema |-> Fragment("number")] >>,
     !.required = << <<"a">> >>]

StringObject ==
  [Fragment("object") EXCEPT
     !.properties = << [key |-> <<"a">>, schema |-> Fragment("string")] >>,
     !.required = << <<"a">> >>]

\* [{"a": 1}, {"a": ""}] yields the union of the number-object and the
\* string-object fragment
C18_Witness ==
  /\ edits = <<"generate">>
  /\ doc = Dict(<< Entry(<<"a">>,
                List(<< Item(Dict(<< Entry(<<"a">>, Scalar("num", "1")) >>)),
                        Item(Dict(<< Entry(<<"a">>, Scalar("str", "")) >>)) >>)) >>)
  /\ policy = [optional |-> {}, nullable |-> {}, excluded |-> {}]
  /\ sch.properties[1].schema.items[1].anyOf = << NumberObject, StringObject >>

\* two fragments with the same type, the same properties and the same set of
\* required names: equal as Python values once the order of the names in
\* `required` is left aside
SameStructure(s, t) ==
  /\ Range(s.required) = Range(t.required)
  /\ PyEq([s EXCEPT !.required = <<>>], [t EXCEPT !.required = <<>>])

\* C19: the item fragments of an array are deduplicated structurally: no
\* anyOf produced for `items` holds two fragments with the same type, the
\* same properties and the same set of required names
C19_NoStructuralDuplicates ==
  (sch # <<>> /\ "excluded" \in DOMAIN policy) =>
    \A y \in SchemaFragments(sch) :
       \A k \in 1..Len(y.frag.items) :
          LET members == y.frag.items[k].anyOf
          IN  \A i, j \in 1..Len(members) :
                 i < j => ~SameStructure(members[i], members[j])

RECURSIVE PropertyFragments(_, _)
\* the fragments found under "properties" in f and below, each with the
\* dotted path of its field
PropertyFragments(f, path) ==
  UNION { PropertyFragments(f.anyOf[i], path) : i \in 1..Len(f.anyOf) }
  \cup UNION { PropertyFragments(f.items[i], path) : i \in 1..Len(f.items) }
  \cup UNION { { [path |-> JoinPath(path, f.properties[i].key),
                  frag |-> f.properties[i].schema] }
               \cup PropertyFragments(f.properties[i].schema,
                                      JoinPath(path, f.properties[i].key))
               : i \in 1..Len(f.properties) }

\* a scalar that is absent (null) or empty (the empty string)
IsEmptyScalar(n) == n.kind = "null" \/ (n.kind = "str" /\ n.val = "")

\* C20: a field whose scalar value is absent or empty is typed null, and a
\* null-typed field is not widened to a union with null: its fragment is the
\* bare null fragment
C20_EmptyScalarsAreNull ==
  (sch # <<>> /\ "excluded" \in DOMAIN policy) =>
    \A x \in Fields(doc, policy.excluded) :
       IsEmptyScalar(x.node) =>
         \E y \in PropertyFragments(RootFragment(sch), <<>>) :
            y.path = x.path /\ y.frag = Fragment("null")

\* the fingerprint a stored artifact records about itself: the "checksum_id"
\* key of a JSON schema, the checksum comment of an XSD file, <<>> when the
\* artifact records none
IdentityField(entry) ==
  IF "checksum_id" \in DOMAIN entry THEN entry.checksum_id
  ELSE IF "comment" \in DOMAIN entry THEN entry.comment
  ELSE <<>>

\* C21: every schema artifact persisted by process_json_file or by
\* XSDGenerator.generate_xsd is tagged with its own fingerprint: the entry
\* stored under the key f records f as its identity field
C21_EntriesRecordTheirFingerprint ==
  program \in { "main.py", "xml_to_xsd" } =>
    \A f \in DOMAIN schema_dir : IdentityField(schema_dir[f]) = f

\* C22: whenever process_json_file reports failure by returning False, it has
\* printed at least one message giving the cause
C22_FalseComesWithAMessage ==
  (last.op = "process_json_file" /\ last.returned = "False")
    => last.printed # <<>>

\* ---------------------------------------------------------------------
\* ElementAnalyzer._infer_data_type on the texts made of a few tokens

MaxTokens == 3

\* the pieces the texts are made of
TextTokens ==
  { <<"t", "r", "u", "e">>, <<"T", "R", "U", "E">>, <<"F", "a", "l", "s", "e">>,
    <<"1">>, <<"0">>, <<"2">>, <<".">>, <<"-">>, <<"e">>, <<"x">>, <<" ">>,
    <<"i", "n", "f">> }

RECURSIVE Concat(_, _)
\* the concatenation of the strings of l from the i-th on
Concat(l, i) == IF i > Len(l) THEN <<>> ELSE l[i] \o Concat(l, i + 1)

\* the texts of at most MaxTokens tokens
TypeTexts == { Concat(l, 1) : l \in SeqsUpTo(TextTokens, MaxTokens) }

InitType ==
  /\ doc0 \in TypeTexts
  /\ doc = doc0
  /\ policy0 = <<>>
  /\ policy = <<>>
  /\ edits = <<>>
  /\ nedits = 0
  /\ fp0 = <<>>
  /\ fp = <<>>
  /\ sch0 = <<>>
  /\ sch = <<>>
  /\ NoProgram

\* self._infer_data_type(value) called on the text
InferDataType ==
  /\ edits = <<>>
  /\ edits' = <<"infer">>
  /\ sch' = infer_data_type(doc)
  /\ sch0' = sch'
  /\ UNCHANGED <<doc0, doc, policy0, policy, nedits, fp0, fp>>
  /\ UNCHANGED fileVars

NextType == InferDataType

SpecType == InitType /\ [][NextType]_vars

\* true, false, 1 or 0 in any letter case, spaces around it left aside
IsBooleanLiteral(text) ==
  lower(strip(text)) \in
    { <<"t", "r", "u", "e">>, <<"f", "a", "l", "s", "e">>, <<"1">>, <<"0">> }

\* the text, spaces around it left aside, parses as an integer or a decimal
ParsesAsNumber(text) == ParsesAsInt(strip(text)) \/ ParsesAsFloat(strip(text))

\* C23: a non-empty text is classified by priority boolean, then integer or
\* decimal, then string: a boolean literal is xs:boolean even when it also
\* parses as a number, any other text that parses as an integer or a decimal
\* gets a numeric type, and no text that parses as a number gets a string
\* type
C23_BooleanThenNumberThenString ==
  (edits = <<"infer">> /\ strip(doc) # <<>>) =>
    /\ IsBooleanLiteral(doc) => sch = XsBoolean
    /\ (~IsBooleanLiteral(doc) /\ ParsesAsNumber(doc)) => sch \in { XsInteger, XsDecimal }
    /\ ParsesAsNumber(doc) => sch \notin { XsString, XsDate, XsDateTime, XsAnyURI }
    /\ sch = XsBoolean => IsBooleanLiteral(doc)
    /\ sch \in { XsInteger, XsDecimal } => ParsesAsNumber(doc)

\* " 1": a boolean literal that also parses as an integer, typed xs:boolean
C23_Witness ==
  /\ edits = <<"infer">>
  /\ doc = << " ", "1" >>
  /\ ParsesAsNumber(doc)
  /\ sch = XsBoolean

\* the types a fragment admits: its own, or those of the members of its
\* anyOf
CoveredTypes(f) ==
  IF f.anyOf # <<>> THEN { f.anyOf[i].type : i \in 1..Len(f.anyOf) } ELSE { f.type }

\* C24: the json_to_schema of schema_generator.py infers each item of an
\* array independently: the `items` fragment of an array covers the type of
\* every item of the array, not only of the first one
C24_ItemsCoverEveryItem ==
  edits = <<"schema_generator">> =>
    \A x \in Arrays(doc, policy.excluded) :
       x.node.kids # <<>> =>
         \E y \in SchemaFragments(sch0) :
            /\ y.path = x.path
            /\ y.frag.type = "array"
            /\ Len(y.frag.items) = 1
            /\ \A i \in 1..Len(x.node.kids) :
                  BaseType(x.node.kids[i].node) \in CoveredTypes(y.frag.items[1])

\* ---------------------------------------------------------------------
\* ElementAnalyzer.analyze_xml_structure on the sample XML documents

InitAnalyze ==
  /\ doc0 \in XmlDocs
  /\ doc = doc0
  /\ policy0 = <<>>
  /\ policy = <<>>
  /\ edits = <<>>
  /\ nedits = 0
  /\ fp0 = <<>>
  /\ fp = <<>>
  /\ sch0 = <<>>
  /\ sch = <<>>
  /\ NoProgram

\* analyzer.analyze_xml_structure(root) on a new ElementAnalyzer: sch holds
\* its element_stats
AnalyzeXmlStructure ==
  /\ edits = <<>>
  /\ edits' = <<"analyze">>
  /\ sch' = analyze_xml_structure(doc, <<>>, <<>>, [t \in AllTags |-> DefaultStats])
  /\ UNCHANGED <<doc0, doc, policy0, policy, nedits, fp0, fp, sch0>>
  /\ UNCHANGED fileVars

NextAnalyze == AnalyzeXmlStructure

SpecAnalyze == InitAnalyze /\ [][NextAnalyze]_vars

RECURSIVE OccursBelowItself(_, _, _)
\* an element with the tag t occurs in e, or e is one, below an element with
\* the same tag; ancestors are the tags of the ancestors of e
OccursBelowItself(e, t, ancestors) ==
  \/ e.tag = t /\ t \in ancestors
  \/ \E i \in 1..Len(e.kids) : OccursBelowItself(e.kids[i], t, ancestors \cup {e.tag})

\* C25: a tag is marked recursive if and only if an element with that tag
\* occurs below another element with the same tag
C25_RecursiveIffBelowItself ==
  edits = <<"analyze">> =>
    \A t \in AllTags : sch[t].is_recursive <=> OccursBelowItself(doc, t, {})

\* ---------------------------------------------------------------------
\* process_json_file on the documents with empty strings, nulls, nested
\* objects and arrays of objects, in an empty schema directory

\* optional_fields and allow_null_fields of the configuration entry
ValidatePolicies ==
  { p \in [optional : SUBSET InferPolicyPaths, nullable : SUBSET InferPolicyPaths] :
      Cardinality(p.optional) + Cardinality(p.nullable) <= MaxPolicy }

InitValidate ==
  /\ doc0 \in InferDocs
  /\ doc = doc0
  /\ policy0 \in ValidatePolicies
  /\ policy = policy0
  /\ edits = <<>>
  /\ nedits = 0
  /\ fp0 = <<>>
  /\ fp = <<>>
  /\ sch0 = <<>>
  /\ sch = <<>>
  /\ program = "main.py"
  /\ schema_dir = <<>>
  /\ last = NoCall
  /\ tick = 0
  /\ callers = <<>>
  /\ writes = <<>>
  /\ batch = <<>>

\* process_json_file called on the file that holds the document, no schema
\* being stored yet
ProcessSample ==
  /\ last = NoCall
  /\ \E write_ok \in BOOLEAN :
        Called(process_json_file(doc, policy, write_ok, schema_dir))

NextValidate == ProcessSample

SpecValidate == InitValidate /\ [][NextValidate]_vars

\* C26: on a cache miss with a successful write, process_json_file returns
\* True for every JSON object document and every optional/nullable policy:
\* the generated schema accepts the document it was generated from
C26_GeneratedSchemaAcceptsItsDocument ==
  (/\ last.op = "process_json_file"
   /\ last.file.kind = "dict"
   /\ ~last.existed
   /\ last.wrote)
  => (last.returned = "True" /\ last.validated = "new" /\ last.printed = <<>>)

\* {"a": [1, ""]} with a nullable: the schema stored has an anyOf under
\* `items` and the call returned True
C26_Witness ==
  /\ last.op = "process_json_file"
  /\ ~last.existed
  /\ last.wrote
  /\ last.returned = "True"
  /\ last.file = Dict(<< Entry(<<"a">>, List(<< Item(Scalar("num", "1")),
                                                 Item(Scalar("str", "")) >>)) >>)
  /\ last.policy.nullable = { <<"a">> }
  /\ \E f \in DOMAIN schema_dir :
        /\ Len(schema_dir[f].properties[1].schema.anyOf) = 2
        /\ Len(schema_dir[f].properties[1].schema.anyOf[1].items[1].anyOf) = 2

\* ---------------------------------------------------------------------
\* XSDGenerator.process_element on XML documents of a few elements

MaxPathNodes == 4

\* the documents: at most MaxPathNodes elements and attributes
PathDocs == UNION { ElementsOfSize(n, {RootTag}) : n \in 1..MaxPathNodes }

InitPath ==
  /\ doc0 \in PathDocs
  /\ doc = doc0
  /\ policy0 \in [optional : SUBSET { <<"r", ".", "a">> }, nullable : { {} }]
  /\ policy = policy0
  /\ edits = <<>>
  /\ nedits = 0
  /\ fp0 = <<>>
  /\ fp = <<>>
  /\ sch0 = <<>>
  /\ sch = <<>>
  /\ NoProgram

\* self.current_path = []; self.process_element(xml_tree.getroot(),
\* self.xsd, is_root=True): sch holds what the call leaves
ProcessRoot ==
  /\ edits = <<>>
  /\ edits' = <<"process_element">>
  /\ sch' = process_element(doc, <<>>, TRUE, policy.optional)
  /\ UNCHANGED <<doc0, doc, policy0, policy, nedits, fp0, fp, sch0>>
  /\ UNCHANGED fileVars

NextPath == ProcessRoot

SpecPath == InitPath /\ [][NextPath]_vars

RECURSIVE Ancestors(_, _)
RECURSIVE AncestorsOfKids(_, _, _)
\* for the element e and the elements below it, in document order, the tag
\* names of the ancestors from the root down and the dotted path of the
\* element
AncestorsOfKids(e, i, above) ==
  IF i > Len(e.kids) THEN <<>>
  ELSE Ancestors(e.kids[i], above) \o AncestorsOfKids(e, i + 1, above)

Ancestors(e, above) ==
  << [current_path |-> above, element_path |-> DotJoin(Append(above, e.tag))] >>
  \o AncestorsOfKids(e, 1, Append(above, e.tag))

\* C27: pushes and pops of current_path are balanced: while process_element
\* handles an element, current_path is the sequence of the tag names of its
\* ancestors from the root down and the path checked against optional_fields
\* is its true dotted path; current_path is empty when process_element of the
\* root returns
C27_PathStackIsBalanced ==
  edits = <<"process_element">> =>
    /\ sch.entered = Ancestors(doc, <<>>)
    /\ sch.current_path = <<>>

\* <r><a x="1"/><a1/></r>: a1 is handled after a pushed and popped its
\* name, with current_path = [r]
C27_Witness ==
  /\ edits = <<"process_element">>
  /\ Len(doc.kids) = 2
  /\ Len(doc.kids[1].attrib) = 1
  /\ doc.kids[2].tag = <<"a", "1">>
  /\ sch.entered[3] = [current_path |-> << <<"r">> >>,
                       element_path |-> <<"r", ".", "a", "1">>]
  /\ sch.current_path = <<>>

====
